---- MODULE Spec2Model ----
(***************************************************************************)
(* The bill-splitting and balance engine of splitwiser:                    *)
(*   backend/internal/calculator/split.go     CalculateSplit               *)
(*   backend/internal/calculator/balances.go  CalculateGroupBalances       *)
(*                                                                         *)
(* float64 amounts are modelled as exact rationals (num/den in lowest      *)
(* terms): every +, -, *, / of the code is the exact operation, so the     *)
(* model carries no rounding error.  Comparisons (<, >, ==) are those of   *)
(* the code.                                                               *)
(***************************************************************************)
EXTENDS Integers, Sequences, FiniteSets, TLC

(***************************************************************************)
(* Bounds of the model.                                                    *)
(***************************************************************************)
MaxParticipants == 2    \* names in a participant list of a CalculateSplit call
MaxItems == 2           \* items of a CalculateSplit call
MaxEntries == 3         \* bills plus settlements of a CalculateGroupBalances call

(***************************************************************************)
(* float64 arithmetic, exact.                                              *)
(***************************************************************************)
Abs(x) == IF x < 0 THEN -x ELSE x

RECURSIVE GCD(_, _)
GCD(a, b) == IF b = 0 THEN a ELSE GCD(b, a % b)

\* The number n/d (d # 0) in lowest terms with a positive denominator.
Rat(n, d) ==
    LET g == GCD(Abs(n), Abs(d))
        s == IF d < 0 THEN -1 ELSE 1
    IN  [num |-> (s * n) \div g, den |-> (s * d) \div g]

FromInt(n) == [num |-> n, den |-> 1]
Zero == FromInt(0)

Add(x, y) == Rat(x.num * y.den + y.num * x.den, x.den * y.den)
Sub(x, y) == Rat(x.num * y.den - y.num * x.den, x.den * y.den)
Mul(x, y) == Rat(x.num * y.num, x.den * y.den)
\* x / y for y # 0 (every division of the code has a non-zero divisor).
Div(x, y) == Rat(x.num * y.den, x.den * y.num)
Lt(x, y)  == x.num * y.den < y.num * x.den
Gt(x, y)  == Lt(y, x)
IsZero(x) == x.num = 0

Range(s) == {s[k] : k \in DOMAIN s}

(***************************************************************************)
(* split.go: CalculateSplit                                                *)
(***************************************************************************)
ErrZeroSubtotal == "subtotal cannot be zero"
ErrNoParticipants == "must have at least one participant"
SharedDescription == "Shared"

\* The nil map returned with an error.
NilSplits == << >>

\* splits[p] = &PersonSplit{0, 0, 0, []PersonItem{}} for every participant:
\* a map, so a name listed twice has one entry.
InitSplits(participants) ==
    [p \in Range(participants) |->
        [Subtotal |-> Zero, Tax |-> Zero, Total |-> Zero, Items |-> << >>]]

\* EqualSplit dividing by the number of entries of the map.
EqualSplitByEntries(splits, billTotal, billSubtotal, tax, n) ==
    LET entries == FromInt(Cardinality(DOMAIN splits))
    IN  [p \in DOMAIN splits |->
            [splits[p] EXCEPT !.Subtotal = Div(billSubtotal, entries),
                              !.Tax = Div(tax, entries),
                              !.Total = Div(billTotal, entries)]]

\* The no-items branch: everyone gets total, subtotal and tax divided by
\* len(participants).
EqualSplit(splits, billTotal, billSubtotal, tax, n) ==
    [p \in DOMAIN splits |->
        [splits[p] EXCEPT !.Subtotal = Div(billSubtotal, FromInt(n)),
                          !.Tax = Div(tax, FromInt(n)),
                          !.Total = Div(billTotal, FromInt(n))]]

\* AssignPeople giving an entry to a person who has none in splits.
RECURSIVE AssignPeopleAddingStrangers(_, _, _, _, _)
AssignPeopleAddingStrangers(splits, people, k, description, perPersonAmount) ==
    IF k > Len(people) THEN splits
    ELSE LET person == people[k]
             known == IF person \in DOMAIN splits THEN splits
                      ELSE (person :> [Subtotal |-> Zero, Tax |-> Zero,
                                       Total |-> Zero, Items |-> << >>]) @@ splits
             next == [known EXCEPT ![person] =
                         [@ EXCEPT !.Subtotal = Add(@, perPersonAmount),
                                   !.Items = Append(@,
                                       [Description |-> description,
                                        Amount |-> perPersonAmount])]]
         IN  AssignPeopleAddingStrangers(next, people, k + 1, description,
                                         perPersonAmount)

\* The inner loop over item.Participants from position k on: a named person
\* who has an entry in splits gets perPersonAmount and a PersonItem.
RECURSIVE AssignPeople(_, _, _, _, _)
AssignPeople(splits, people, k, description, perPersonAmount) ==
    IF k > Len(people) THEN splits
    ELSE LET person == people[k]
             next == IF person \in DOMAIN splits
                     THEN [splits EXCEPT ![person] =
                             [@ EXCEPT !.Subtotal = Add(@, perPersonAmount),
                                       !.Items = Append(@,
                                           [Description |-> description,
                                            Amount |-> perPersonAmount])]]
                     ELSE splits
         IN  AssignPeople(next, people, k + 1, description, perPersonAmount)

\* AssignItems dividing each item by the number of people on the bill.
RECURSIVE AssignItemsByBillParticipants(_, _, _)
AssignItemsByBillParticipants(st, items, k) ==
    IF k > Len(items) THEN st
    ELSE LET item == items[k] IN
         IF Len(item.Participants) = 0
         THEN AssignItemsByBillParticipants(st, items, k + 1)
         ELSE LET perPersonAmount ==
                      Div(item.Amount, FromInt(Cardinality(DOMAIN st.splits)))
              IN  AssignItemsByBillParticipants(
                      [splits |-> AssignPeople(st.splits, item.Participants, 1,
                                               item.Description, perPersonAmount),
                       itemsTotal |-> Add(st.itemsTotal, item.Amount)],
                      items, k + 1)

\* The loop over items from position k on; st = [splits, itemsTotal].
\* AssignItems with the amount of an item nobody is named on counted into
\* itemsTotal.
RECURSIVE AssignItemsCountingUnassigned(_, _, _)
AssignItemsCountingUnassigned(st, items, k) ==
    IF k > Len(items) THEN st
    ELSE LET item == items[k] IN
         IF Len(item.Participants) = 0
         THEN AssignItemsCountingUnassigned(
                  [st EXCEPT !.itemsTotal = Add(@, item.Amount)], items, k + 1)
         ELSE LET perPersonAmount ==
                      Div(item.Amount, FromInt(Len(item.Participants)))
              IN  AssignItemsCountingUnassigned(
                      [splits |-> AssignPeople(st.splits, item.Participants, 1,
                                               item.Description, perPersonAmount),
                       itemsTotal |-> Add(st.itemsTotal, item.Amount)],
                      items, k + 1)

RECURSIVE AssignItems(_, _, _)
AssignItems(st, items, k) ==
    IF k > Len(items) THEN st
    ELSE LET item == items[k] IN
         IF Len(item.Participants) = 0
         THEN AssignItems(st, items, k + 1)
         ELSE LET perPersonAmount ==
                      Div(item.Amount, FromInt(Len(item.Participants)))
              IN  AssignItems(
                      [splits |-> AssignPeople(st.splits, item.Participants, 1,
                                               item.Description, perPersonAmount),
                       itemsTotal |-> Add(st.itemsTotal, item.Amount)],
                      items, k + 1)

\* ShareRemainder among the people who have items only.
ShareRemainderAmongItemHolders(splits, itemsTotal, billSubtotal, n) ==
    IF Lt(itemsTotal, billSubtotal)
    THEN LET perPersonShare == Div(Sub(billSubtotal, itemsTotal), FromInt(n))
         IN  [p \in DOMAIN splits |->
                IF Len(splits[p].Items) = 0 THEN splits[p]
                ELSE [splits[p] EXCEPT !.Subtotal = Add(@, perPersonShare),
                                       !.Items = Append(@,
                                           [Description |-> SharedDescription,
                                            Amount |-> perPersonShare])]]
    ELSE splits

\* ShareRemainder with the comparison turned round.
ShareRemainderReversed(splits, itemsTotal, billSubtotal, n) ==
    IF Gt(itemsTotal, billSubtotal)
    THEN LET perPersonShare == Div(Sub(billSubtotal, itemsTotal), FromInt(n))
         IN  [p \in DOMAIN splits |->
                [splits[p] EXCEPT !.Subtotal = Add(@, perPersonShare),
                                  !.Items = Append(@,
                                      [Description |-> SharedDescription,
                                       Amount |-> perPersonShare])]]
    ELSE splits

\* If items don't account for the full subtotal, split the remainder equally.
\* ShareRemainder with the "Shared" entry put before the person's items.
ShareRemainderFirst(splits, itemsTotal, billSubtotal, n) ==
    IF Lt(itemsTotal, billSubtotal)
    THEN LET perPersonShare == Div(Sub(billSubtotal, itemsTotal), FromInt(n))
         IN  [p \in DOMAIN splits |->
                [splits[p] EXCEPT !.Subtotal = Add(@, perPersonShare),
                                  !.Items = <<[Description |-> SharedDescription,
                                               Amount |-> perPersonShare]>> \o @]]
    ELSE splits

ShareRemainder(splits, itemsTotal, billSubtotal, n) ==
    IF Lt(itemsTotal, billSubtotal)
    THEN LET perPersonShare == Div(Sub(billSubtotal, itemsTotal), FromInt(n))
         IN  [p \in DOMAIN splits |->
                [splits[p] EXCEPT !.Subtotal = Add(@, perPersonShare),
                                  !.Items = Append(@,
                                      [Description |-> SharedDescription,
                                       Amount |-> perPersonShare])]]
    ELSE splits

\* ApplyTax with the tax ratio taken against the bill total.
ApplyTaxOnTotal(splits, tax, billSubtotal) ==
    [p \in DOMAIN splits |->
        LET t == Mul(splits[p].Subtotal, Div(tax, Add(billSubtotal, tax)))
        IN  [splits[p] EXCEPT !.Tax = t, !.Total = Add(splits[p].Subtotal, t)]]

\* ApplyTax with the tax divided evenly.
ApplyTaxEvenly(splits, tax, billSubtotal) ==
    [p \in DOMAIN splits |->
        LET t == Div(tax, FromInt(Cardinality(DOMAIN splits)))
        IN  [splits[p] EXCEPT !.Tax = t, !.Total = Add(splits[p].Subtotal, t)]]

\* Apply proportional tax and calculate the total.
ApplyTax(splits, tax, billSubtotal) ==
    [p \in DOMAIN splits |->
        LET t == Mul(splits[p].Subtotal, Div(tax, billSubtotal))
        IN  [splits[p] EXCEPT !.Tax = t, !.Total = Add(splits[p].Subtotal, t)]]

\* CalculateSplit with its two checks in the other order.
CalculateSplitParticipantsFirst(items, billTotal, billSubtotal, participants) ==
    IF Len(participants) = 0
    THEN [err |-> ErrNoParticipants, splits |-> NilSplits]
    ELSE IF IsZero(billSubtotal)
    THEN [err |-> ErrZeroSubtotal, splits |-> NilSplits]
    ELSE LET tax == Sub(billTotal, billSubtotal)
             splits == InitSplits(participants)
             n == Len(participants)
         IN  IF Len(items) = 0
             THEN [err |-> "",
                   splits |-> EqualSplit(splits, billTotal, billSubtotal, tax, n)]
             ELSE LET st == AssignItems([splits |-> splits, itemsTotal |-> Zero],
                                        items, 1)
                      shared == ShareRemainder(st.splits, st.itemsTotal,
                                               billSubtotal, n)
                  IN  [err |-> "", splits |-> ApplyTax(shared, tax, billSubtotal)]

CalculateSplit(items, billTotal, billSubtotal, participants) ==
    IF IsZero(billSubtotal)
    THEN [err |-> ErrZeroSubtotal, splits |-> NilSplits]
    ELSE IF Len(participants) = 0
    THEN [err |-> ErrNoParticipants, splits |-> NilSplits]
    ELSE LET tax == Sub(billTotal, billSubtotal)
             splits == InitSplits(participants)
             n == Len(participants)
         IN  IF Len(items) = 0
             THEN [err |-> "",
                   splits |-> EqualSplit(splits, billTotal, billSubtotal, tax, n)]
             ELSE LET st == AssignItems([splits |-> splits, itemsTotal |-> Zero],
                                        items, 1)
                      shared == ShareRemainder(st.splits, st.itemsTotal,
                                               billSubtotal, n)
                  IN  [err |-> "", splits |-> ApplyTax(shared, tax, billSubtotal)]

(***************************************************************************)
(* Inputs of a CalculateSplit call.                                        *)
(***************************************************************************)
Persons == {"a", "b", "c"}

NameLists(S, n) == UNION {[1..k -> S] : k \in 0..n}

\* Description and amount of the items a call may carry.
ItemKinds == {[Description |-> "Pizza", Amount |-> FromInt(20)],
              [Description |-> "Shared", Amount |-> FromInt(10)]}

\* The people an item may name: nobody, one, two, one twice, and one who may
\* not be on the bill.
ItemAssignments == {<< >>, <<"a">>, <<"b">>, <<"a", "b">>, <<"a", "a">>,
                    <<"a", "c">>}

SplitItems ==
    {[Description |-> kind.Description, Amount |-> kind.Amount,
      Participants |-> ps] : kind \in ItemKinds, ps \in ItemAssignments}

SplitItemLists == UNION {[1..k -> SplitItems] : k \in 0..MaxItems}

\* <<billTotal, billSubtotal>>: positive tax, negative tax, zero subtotal,
\* negative subtotal (with a positive tax).
SplitAmounts == {<<FromInt(33), FromInt(30)>>,
                 <<FromInt(27), FromInt(30)>>,
                 <<FromInt(33), Zero>>,
                 <<FromInt(-27), FromInt(-30)>>}

(***************************************************************************)
(* balances.go: CalculateGroupBalances                                     *)
(***************************************************************************)
\* The 0.01 of the matching loop ("Avoid floating point noise").
Epsilon == Rat(1, 100)

ErrSplitPrefix == "failed to calculate split: "

NewMemberBalance(name) ==
    [MemberName |-> name, NetBalance |-> Zero, TotalPaid |-> Zero,
     TotalOwed |-> Zero]

\* if _, exists := balances[name]; !exists { balances[name] = &MemberBalance{...} }
EnsureMember(balances, name) ==
    IF name \in DOMAIN balances THEN balances
    ELSE [p \in DOMAIN balances \cup {name} |->
            IF p = name THEN NewMemberBalance(name) ELSE balances[p]]

\* The loop "for participant, personSplit := range splitResult" over the
\* entries in `left`: each participant owes their share.  (The debts map the
\* loop also fills is never read, and is left out.)
RECURSIVE OweShares(_, _, _)
OweShares(balances, splitResult, left) ==
    IF left = {} THEN balances
    ELSE LET participant == CHOOSE p \in left : TRUE
             b == EnsureMember(balances, participant)
         IN  OweShares(
                 [b EXCEPT ![participant].TotalOwed =
                               Add(@, splitResult[participant].Total)],
                 splitResult, left \ {participant})

\* AddBill with the payer's own share not owed.
AddBillPayerOwesNothing(balances, bill, splitResult) ==
    LET b == EnsureMember(balances, bill.PayerID)
        paid == [b EXCEPT ![bill.PayerID].TotalPaid = Add(@, bill.Total)]
    IN  OweShares(paid, splitResult, DOMAIN splitResult \ {bill.PayerID})

\* One bill with a payer whose split was calculated: the payer paid the full
\* amount, each participant owes their share.
AddBill(balances, bill, splitResult) ==
    LET b == EnsureMember(balances, bill.PayerID)
        paid == [b EXCEPT ![bill.PayerID].TotalPaid = Add(@, bill.Total)]
    IN  OweShares(paid, splitResult, DOMAIN splitResult)

\* SkipsBill without the payer check.
SkipsNoBill(bill) == FALSE

\* Whether the bill loop looks at a bill at all.
SkipsBill(bill) == bill.PayerID = ""

\* AggregateBills passing over a bill CalculateSplit rejects.
RECURSIVE AggregateBillsDroppingRejected(_, _, _)
AggregateBillsDroppingRejected(balances, bills, k) ==
    IF k > Len(bills) THEN [err |-> "", balances |-> balances]
    ELSE LET bill == bills[k] IN
         IF bill.PayerID = "" THEN AggregateBillsDroppingRejected(balances, bills, k + 1)
         ELSE LET res == CalculateSplit(bill.Items, bill.Total, bill.Subtotal,
                                        bill.Participants)
              IN  IF res.err # ""
                  THEN AggregateBillsDroppingRejected(balances, bills, k + 1)
                  ELSE AggregateBillsDroppingRejected(
                           [p \in DOMAIN balances \cup {bill.PayerID}
                                  \cup DOMAIN res.splits |->
                               LET old == IF p \in DOMAIN balances THEN balances[p]
                                          ELSE [MemberName |-> p, NetBalance |-> Zero,
                                                TotalPaid |-> Zero, TotalOwed |-> Zero]
                               IN  [old EXCEPT
                                       !.TotalPaid = IF p = bill.PayerID
                                                     THEN Add(@, bill.Total) ELSE @,
                                       !.TotalOwed = IF p \in DOMAIN res.splits
                                                     THEN Add(@, res.splits[p].Total)
                                                     ELSE @]],
                           bills, k + 1)

\* The loop over bills from position k on: [err, balances].
RECURSIVE AggregateBills(_, _, _)
AggregateBills(balances, bills, k) ==
    IF k > Len(bills) THEN [err |-> "", balances |-> balances]
    ELSE LET bill == bills[k] IN
         IF SkipsBill(bill) THEN AggregateBills(balances, bills, k + 1)
         ELSE LET res == CalculateSplit(bill.Items, bill.Total, bill.Subtotal,
                                        bill.Participants)
              IN  IF res.err # ""
                  THEN [err |-> ErrSplitPrefix \o res.err, balances |-> << >>]
                  ELSE AggregateBills(AddBill(balances, bill, res.splits),
                                      bills, k + 1)

\* ApplySettlement booking only on members the bills have entered.
ApplySettlementKnownMembersOnly(balances, s) ==
    LET paid == IF s.FromUserID \in DOMAIN balances
                THEN [balances EXCEPT ![s.FromUserID].TotalPaid = Add(@, s.Amount)]
                ELSE balances
    IN  IF s.ToUserID \in DOMAIN paid
        THEN [paid EXCEPT ![s.ToUserID].TotalOwed = Add(@, s.Amount)]
        ELSE paid

\* ApplySettlement booking the receipt as a negative payment.
ApplySettlementAsRefund(balances, s) ==
    LET b == EnsureMember(EnsureMember(balances, s.FromUserID), s.ToUserID)
        paid == [b EXCEPT ![s.FromUserID].TotalPaid = Add(@, s.Amount)]
    IN  [paid EXCEPT ![s.ToUserID].TotalPaid = Sub(@, s.Amount)]

\* ApplySettlement without the receiver's side.
ApplySettlementPayerOnly(balances, s) ==
    LET b == EnsureMember(EnsureMember(balances, s.FromUserID), s.ToUserID)
    IN  [b EXCEPT ![s.FromUserID].TotalPaid = Add(@, s.Amount)]

\* One settlement: the payer's balance improves, the receiver's decreases.
ApplySettlement(balances, s) ==
    LET b == EnsureMember(EnsureMember(balances, s.FromUserID), s.ToUserID)
        paid == [b EXCEPT ![s.FromUserID].TotalPaid = Add(@, s.Amount)]
    IN  [paid EXCEPT ![s.ToUserID].TotalOwed = Add(@, s.Amount)]

RECURSIVE ApplySettlements(_, _, _)
ApplySettlements(balances, settlements, k) ==
    IF k > Len(settlements) THEN balances
    ELSE ApplySettlements(ApplySettlement(balances, settlements[k]),
                          settlements, k + 1)

\* bal.NetBalance = bal.TotalPaid - bal.TotalOwed
ComputeNet(balances) ==
    [p \in DOMAIN balances |->
        [balances[p] EXCEPT !.NetBalance =
            Sub(balances[p].TotalPaid, balances[p].TotalOwed)]]

\* The balances map at the end of the aggregation: [err, balances].
Aggregate(bills, settlements) ==
    LET agg == AggregateBills(<< >>, bills, 1)
    IN  IF agg.err # "" THEN agg
        ELSE [err |-> "",
              balances |-> ComputeNet(ApplySettlements(agg.balances,
                                                       settlements, 1))]

\* The orders in which a range over a map with key set S may visit it.
MapOrders(S) ==
    {f \in [1..Cardinality(S) -> S] : \A x \in S : \E k \in DOMAIN f : f[k] = x}

\* for _, bal := range balances { memberBalances = append(memberBalances, *bal) }
MemberList(balances, order) == [k \in DOMAIN order |-> balances[order[k]]]

\* IsCreditor with balances of a cent or less left out.
IsCreditorAboveEpsilon(bal) == Gt(bal.NetBalance, Epsilon)

IsCreditor(bal) == Gt(bal.NetBalance, Zero)
IsDebtor(bal) == Lt(bal.NetBalance, Zero)

Creditors(balances, order) == SelectSeq(MemberList(balances, order), IsCreditor)
Debtors(balances, order) == SelectSeq(MemberList(balances, order), IsDebtor)

\* The amount to settle taken as the larger of the two.
MinTakingLarger(x, y) == IF Lt(y, x) THEN x ELSE y

Min(x, y) == IF Lt(y, x) THEN y ELSE x

\* EmitsEdge with a matched amount of exactly 0.01 let through.
EmitsEdgeFromEpsilon(amount) == ~Lt(amount, Epsilon)

\* Whether a matched amount becomes a DebtEdge.
EmitsEdge(amount) == Gt(amount, Epsilon)

\* Settled with a cursor that moves only once the remainder is negative.
SettledBelowZero(remaining) == Lt(remaining, Zero)

\* Whether a remaining magnitude moves the cursor on.
Settled(remaining) == Lt(remaining, Epsilon)

\* The matching loop's variables before its first iteration.
StartMatch(ds, cs) ==
    [i |-> 0, j |-> 0,
     debtorBalance |->
         [p \in {ds[k].MemberName : k \in DOMAIN ds} |->
             Sub(Zero, (CHOOSE bal \in Range(ds) : bal.MemberName = p).NetBalance)],
     creditorBalance |->
         [p \in {cs[k].MemberName : k \in DOMAIN cs} |->
             (CHOOSE bal \in Range(cs) : bal.MemberName = p).NetBalance],
     debtEdges |-> << >>]

\* The loop condition.
Matching(ds, cs, m) == m.i < Len(ds) /\ m.j < Len(cs)

\* One iteration of the matching loop on its variables m.
MatchOnce(ds, cs, m) ==
    LET debtor == ds[m.i + 1].MemberName
        creditor == cs[m.j + 1].MemberName
        amount == Min(m.debtorBalance[debtor], m.creditorBalance[creditor])
        dLeft == Sub(m.debtorBalance[debtor], amount)
        cLeft == Sub(m.creditorBalance[creditor], amount)
    IN  [i |-> IF Settled(dLeft) THEN m.i + 1 ELSE m.i,
         j |-> IF Settled(cLeft) THEN m.j + 1 ELSE m.j,
         debtorBalance |-> [m.debtorBalance EXCEPT ![debtor] = dLeft],
         creditorBalance |-> [m.creditorBalance EXCEPT ![creditor] = cLeft],
         debtEdges |-> IF EmitsEdge(amount)
                       THEN Append(m.debtEdges, [From |-> debtor, To |-> creditor,
                                                 Amount |-> amount])
                       ELSE m.debtEdges]

(***************************************************************************)
(* Inputs of a CalculateGroupBalances call.                                *)
(***************************************************************************)
Pizza(amount, people) ==
    [Description |-> "Pizza", Amount |-> FromInt(amount), Participants |-> people]

MkBill(total, subtotal, payer, items, participants) ==
    [Total |-> FromInt(total), Subtotal |-> FromInt(subtotal), PayerID |-> payer,
     Items |-> items, Participants |-> participants]

BillCatalogue ==
    { MkBill(33, 30, "a", << >>, <<"a", "b">>),                   \* equal split
      MkBill(33, 30, "c", <<Pizza(20, <<"a">>)>>, <<"a", "b", "c">>), \* remainder
      MkBill(33, 30, "", << >>, <<"a", "b">>),                    \* no payer
      MkBill(33, 0, "a", << >>, <<"a", "b">>),                    \* zero subtotal
      MkBill(33, 30, "b", << >>, << >>),                          \* no participants
      MkBill(33, 30, "", << >>, << >>),           \* no payer, no participants
      MkBill(33, 30, "a", <<Pizza(40, <<"b">>)>>, <<"a", "b">>) } \* items > subtotal

SettlementCatalogue ==
    {[FromUserID |-> ft[1], ToUserID |-> ft[2], Amount |-> amount] :
        ft \in {<<"b", "a">>, <<"c", "a">>},
        amount \in {Epsilon, FromInt(30)}}

\* Settlements between two pairs of a group of four.
PairedSettlements ==
    {[FromUserID |-> "b", ToUserID |-> "a", Amount |-> FromInt(30)],
     [FromUserID |-> "d", ToUserID |-> "c", Amount |-> FromInt(20)],
     [FromUserID |-> "d", ToUserID |-> "a", Amount |-> FromInt(10)]}

\* Settlements that leave a remainder of half a cent, or of a cent.
HalfCent == Rat(1, 200)

CentSettlements ==
    {[FromUserID |-> "b", ToUserID |-> "a", Amount |-> FromInt(30)],
     [FromUserID |-> "b", ToUserID |-> "a", Amount |-> Sub(FromInt(30), HalfCent)],
     [FromUserID |-> "c", ToUserID |-> "a", Amount |-> HalfCent],
     [FromUserID |-> "c", ToUserID |-> "a", Amount |-> Epsilon]}

BillLists(n) == [1..n -> BillCatalogue]
SettlementLists(n) == [1..n -> SettlementCatalogue]

VARIABLES
    splitCalled,    \* a CalculateSplit call has returned
    splitArgs,      \* its arguments
    splitRet,       \* its result: [err, splits]
    pc,             \* CalculateGroupBalances: "idle", "match" (in the loop), "done"
    bills,          \* its arguments
    settlements,
    balances,       \* its locals
    memberBalances,
    creditors,
    debtors,
    i,
    j,
    debtorBalance,
    creditorBalance,
    debtEdges,
    err,            \* the returned error, "" for nil
    storeBills,       \* the store: bill id -> bill
    storeGroups,      \* group id -> the names of its members
    storeSettlements, \* settlement id -> settlement
    resp,             \* the response to the last request: [rpc, code, err]
    calls,            \* concurrent invocations: goroutine -> its call
    gb,               \* the GetGroupBalances request being handled step by step
    undo              \* the settlement recorded last and the balances before it

splitVars == <<splitCalled, splitArgs, splitRet>>

balanceVars == <<pc, bills, settlements, balances, memberBalances, creditors,
                 debtors, i, j, debtorBalance, creditorBalance, debtEdges, err>>

serviceVars == <<storeBills, storeGroups, storeSettlements, resp>>

raceVars == <<gb, undo>>

vars == <<splitVars, balanceVars, serviceVars, calls, raceVars>>

NoArgs == [items |-> << >>, billTotal |-> Zero, billSubtotal |-> Zero,
           participants |-> << >>]

SplitInit ==
    /\ splitCalled = FALSE
    /\ splitArgs = NoArgs
    /\ splitRet = [err |-> "", splits |-> NilSplits]

\* One call of CalculateSplit, from entry to return.
CallCalculateSplit ==
    /\ ~splitCalled
    /\ \E items \in SplitItemLists, amounts \in SplitAmounts,
          participants \in NameLists(Persons, MaxParticipants) :
        /\ splitArgs' = [items |-> items, billTotal |-> amounts[1],
                         billSubtotal |-> amounts[2],
                         participants |-> participants]
        /\ splitRet' = CalculateSplit(items, amounts[1], amounts[2], participants)
    /\ splitCalled' = TRUE
    /\ UNCHANGED <<balanceVars, serviceVars, calls, raceVars>>

BalanceInit ==
    /\ pc = "idle"
    /\ bills = << >>
    /\ settlements = << >>
    /\ balances = << >>
    /\ memberBalances = << >>
    /\ creditors = << >>
    /\ debtors = << >>
    /\ i = 0
    /\ j = 0
    /\ debtorBalance = << >>
    /\ creditorBalance = << >>
    /\ debtEdges = << >>
    /\ err = ""

\* CalculateGroupBalances(bs, ss) from entry to the head of the matching loop,
\* or to its return of (nil, nil, err).  memberOrder and partitionOrder are the
\* orders in which the two ranges over the balances map visit it.
Enter(bs, ss) ==
    \E agg \in {Aggregate(bs, ss)} :
        /\ bills' = bs
        /\ settlements' = ss
        /\ IF agg.err # ""
           THEN /\ pc' = "done"
                /\ err' = agg.err
                /\ UNCHANGED <<balances, memberBalances, creditors, debtors, i, j,
                               debtorBalance, creditorBalance, debtEdges>>
           ELSE \E memberOrder \in MapOrders(DOMAIN agg.balances),
                   partitionOrder \in MapOrders(DOMAIN agg.balances) :
                \E cs \in {Creditors(agg.balances, partitionOrder)},
                   ds \in {Debtors(agg.balances, partitionOrder)} :
                \E m \in {StartMatch(ds, cs)} :
                /\ pc' = "match"
                /\ err' = ""
                /\ balances' = agg.balances
                /\ memberBalances' = MemberList(agg.balances, memberOrder)
                /\ creditors' = cs
                /\ debtors' = ds
                /\ i' = m.i
                /\ j' = m.j
                /\ debtorBalance' = m.debtorBalance
                /\ creditorBalance' = m.creditorBalance
                /\ debtEdges' = m.debtEdges

\* A call on bills and settlements of the catalogues.
EnterCalculateGroupBalances ==
    /\ pc = "idle"
    /\ \E nb \in 0..MaxEntries :
       \E ns \in 0..(MaxEntries - nb) :
       \E bs \in BillLists(nb), ss \in SettlementLists(ns) :
           Enter(bs, ss)
    /\ UNCHANGED <<splitVars, serviceVars, calls, raceVars>>

\* A call of a group of four with settlements only.
EnterWithPairedSettlements ==
    /\ pc = "idle"
    /\ \E ns \in 0..MaxEntries :
       \E ss \in [1..ns -> PairedSettlements] :
           Enter(<< >>, ss)
    /\ UNCHANGED <<splitVars, serviceVars, calls, raceVars>>

\* A call with settlements of cents and half cents only.
EnterWithCentSettlements ==
    /\ pc = "idle"
    /\ \E ns \in 0..MaxEntries :
       \E ss \in [1..ns -> CentSettlements] :
           Enter(<< >>, ss)
    /\ UNCHANGED <<splitVars, serviceVars, calls, raceVars>>

\* The matching loop's variables in the current state.
LoopVars ==
    [i |-> i, j |-> j, debtorBalance |-> debtorBalance,
     creditorBalance |-> creditorBalance, debtEdges |-> debtEdges]

InLoop == Matching(debtors, creditors, LoopVars)

\* One iteration of the matching loop.
MatchStep ==
    /\ pc = "match"
    /\ InLoop
    /\ \E m \in {MatchOnce(debtors, creditors, LoopVars)} :
        /\ i' = m.i
        /\ j' = m.j
        /\ debtorBalance' = m.debtorBalance
        /\ creditorBalance' = m.creditorBalance
        /\ debtEdges' = m.debtEdges
    /\ UNCHANGED <<pc, bills, settlements, balances, memberBalances, creditors,
                   debtors, err, splitVars, serviceVars, calls, raceVars>>

\* The loop condition fails: return memberBalances, debtEdges, nil.
ReturnBalances ==
    /\ pc = "match"
    /\ ~InLoop
    /\ pc' = "done"
    /\ UNCHANGED <<bills, settlements, balances, memberBalances, creditors,
                   debtors, i, j, debtorBalance, creditorBalance, debtEdges, err,
                   splitVars, serviceVars, calls, raceVars>>

(***************************************************************************)
(* Concurrent invocations: each goroutine runs one call of CalculateSplit  *)
(* or CalculateGroupBalances on its own arguments, with its own locals;    *)
(* the steps of the goroutines interleave.                                 *)
(***************************************************************************)
MaxGoroutines == 2

Goroutines == 1..MaxGoroutines

NoCall == [items |-> << >>, billTotal |-> Zero, billSubtotal |-> Zero,
           participants |-> << >>, bills |-> << >>, settlements |-> << >>]

NoLocals == [tax |-> Zero, splits |-> << >>, itemsTotal |-> Zero,
             memberBalances |-> << >>, creditors |-> << >>, debtors |-> << >>,
             m |-> StartMatch(<< >>, << >>)]

NoResult == [err |-> "", splits |-> NilSplits, memberBalances |-> << >>,
             debtEdges |-> << >>]

\* A goroutine that has not called yet.  given is what the caller holds,
\* args what the function was handed (slices that share the caller's arrays).
IdleCall == [fn |-> "", pc |-> "idle", given |-> NoCall, args |-> NoCall,
             locals |-> NoLocals, ret |-> NoResult]

ConcurrentInit == calls = [g \in Goroutines |-> IdleCall]

\* The arguments of the concurrent calls.
SplitCall(items, total, subtotal, participants) ==
    [NoCall EXCEPT !.items = items, !.billTotal = FromInt(total),
                   !.billSubtotal = FromInt(subtotal),
                   !.participants = participants]

ConcurrentSplitCalls ==
    { SplitCall(<< >>, 33, 30, <<"a", "b">>),
      SplitCall(<<Pizza(20, <<"a">>)>>, 33, 30, <<"a", "b">>),
      SplitCall(<< >>, 33, 0, <<"a", "b">>) }

BalanceCall(bs, ss) == [NoCall EXCEPT !.bills = bs, !.settlements = ss]

ConcurrentBalanceCalls ==
    { BalanceCall(<<MkBill(33, 30, "a", << >>, <<"a", "b">>)>>, << >>),
      BalanceCall(<<MkBill(33, 30, "c", <<Pizza(20, <<"a">>)>>, <<"a", "b", "c">>)>>,
                  <<[FromUserID |-> "b", ToUserID |-> "a", Amount |-> FromInt(30)]>>),
      BalanceCall(<<MkBill(33, 0, "a", << >>, <<"a", "b">>)>>, << >>) }

\* The locals of goroutine g's call.
LocalsOf(g) == calls[g].locals

Step(g, call) == calls' = [calls EXCEPT ![g] = call]

\* CalculateSplit, entry: the two checks, tax and the initial splits map.
GoCalculateSplit(g) ==
    /\ calls[g].pc = "idle"
    /\ \E a \in ConcurrentSplitCalls :
        Step(g, IF IsZero(a.billSubtotal)
                THEN [IdleCall EXCEPT !.fn = "CalculateSplit", !.pc = "done",
                                      !.given = a, !.args = a,
                                      !.ret.err = ErrZeroSubtotal]
                ELSE IF Len(a.participants) = 0
                THEN [IdleCall EXCEPT !.fn = "CalculateSplit", !.pc = "done",
                                      !.given = a, !.args = a,
                                      !.ret.err = ErrNoParticipants]
                ELSE [IdleCall EXCEPT !.fn = "CalculateSplit", !.pc = "items",
                                      !.given = a, !.args = a,
                                      !.locals.tax = Sub(a.billTotal, a.billSubtotal),
                                      !.locals.splits = InitSplits(a.participants)])
    /\ UNCHANGED <<splitVars, balanceVars, serviceVars, raceVars>>

\* CalculateSplit, the equal split and its return, or the loop over the items.
SplitItemsStep(g) ==
    /\ calls[g].pc = "items"
    /\ LET a == calls[g].args
           l == LocalsOf(g)
       IN  IF Len(a.items) = 0
           THEN Step(g, [calls[g] EXCEPT
                    !.pc = "done",
                    !.ret.splits = EqualSplit(l.splits, a.billTotal, a.billSubtotal,
                                              l.tax, Len(a.participants))])
           ELSE LET st == AssignItems([splits |-> l.splits, itemsTotal |-> Zero],
                                      a.items, 1)
                IN  Step(g, [calls[g] EXCEPT !.pc = "tax",
                                             !.locals.splits = st.splits,
                                             !.locals.itemsTotal = st.itemsTotal])
    /\ UNCHANGED <<splitVars, balanceVars, serviceVars, raceVars>>

\* CalculateSplit, the remainder, the tax and the return.
SplitTaxStep(g) ==
    /\ calls[g].pc = "tax"
    /\ LET a == calls[g].args
           l == LocalsOf(g)
           shared == ShareRemainder(l.splits, l.itemsTotal, a.billSubtotal,
                                    Len(a.participants))
       IN  Step(g, [calls[g] EXCEPT
                !.pc = "done",
                !.ret.splits = ApplyTax(shared, l.tax, a.billSubtotal)])
    /\ UNCHANGED <<splitVars, balanceVars, serviceVars, raceVars>>

\* CalculateGroupBalances from entry to the head of the matching loop, or to
\* its return of an error.
GoCalculateGroupBalances(g) ==
    /\ calls[g].pc = "idle"
    /\ \E a \in ConcurrentBalanceCalls :
       \E agg \in {Aggregate(a.bills, a.settlements)} :
          IF agg.err # ""
          THEN Step(g, [IdleCall EXCEPT !.fn = "CalculateGroupBalances",
                                        !.pc = "done", !.given = a, !.args = a,
                                        !.ret.err = agg.err])
          ELSE \E memberOrder \in MapOrders(DOMAIN agg.balances),
                  partitionOrder \in MapOrders(DOMAIN agg.balances) :
               \E cs \in {Creditors(agg.balances, partitionOrder)},
                  ds \in {Debtors(agg.balances, partitionOrder)} :
                  Step(g, [IdleCall EXCEPT
                      !.fn = "CalculateGroupBalances", !.pc = "match",
                      !.given = a, !.args = a,
                      !.locals.memberBalances = MemberList(agg.balances, memberOrder),
                      !.locals.creditors = cs,
                      !.locals.debtors = ds,
                      !.locals.m = StartMatch(ds, cs)])
    /\ UNCHANGED <<splitVars, balanceVars, serviceVars, raceVars>>

\* One iteration of the matching loop of goroutine g.
MatchStepOf(g) ==
    /\ calls[g].pc = "match"
    /\ LET l == LocalsOf(g)
       IN  /\ Matching(l.debtors, l.creditors, l.m)
           /\ Step(g, [calls[g] EXCEPT
                  !.locals.m = MatchOnce(l.debtors, l.creditors, l.m)])
    /\ UNCHANGED <<splitVars, balanceVars, serviceVars, raceVars>>

\* The loop condition of goroutine g fails: it returns.
ReturnOf(g) ==
    /\ calls[g].pc = "match"
    /\ LET l == LocalsOf(g)
       IN  /\ ~Matching(l.debtors, l.creditors, l.m)
           /\ Step(g, [calls[g] EXCEPT
                  !.pc = "done",
                  !.ret.memberBalances = l.memberBalances,
                  !.ret.debtEdges = l.m.debtEdges])
    /\ UNCHANGED <<splitVars, balanceVars, serviceVars, raceVars>>

NextConcurrent ==
    \E g \in Goroutines :
        \/ GoCalculateSplit(g)
        \/ SplitItemsStep(g)
        \/ SplitTaxStep(g)
        \/ GoCalculateGroupBalances(g)
        \/ MatchStepOf(g)
        \/ ReturnOf(g)

\* An empty store, no request handled yet.
ServiceInit ==
    /\ storeBills = << >>
    /\ storeGroups = << >>
    /\ storeSettlements = << >>
    /\ resp = [rpc |-> "", code |-> "", err |-> ""]

\* No GetGroupBalances request under way, no settlement recorded.
NoRequest == [pc |-> "idle", listed |-> << >>, fetched |-> << >>, seen |-> {},
              code |-> "", balances |-> << >>]

NoUndo == [id |-> 0, before |-> << >>, deleted |-> FALSE]

RaceInit == gb = NoRequest /\ undo = NoUndo

Init == SplitInit /\ BalanceInit /\ ServiceInit /\ ConcurrentInit /\ RaceInit

SplitNext == CallCalculateSplit

SpecSplit == Init /\ [][SplitNext]_vars

Next ==
    \/ EnterCalculateGroupBalances
    \/ MatchStep
    \/ ReturnBalances

Spec == Init /\ [][Next]_vars

NextPairs ==
    \/ EnterWithPairedSettlements
    \/ MatchStep
    \/ ReturnBalances

SpecPairs == Init /\ [][NextPairs]_vars

NextCents ==
    \/ EnterWithCentSettlements
    \/ MatchStep
    \/ ReturnBalances

SpecCents == Init /\ [][NextCents]_vars

\* The ledger with its steps taken as long as they can be: a call that has
\* entered the loop goes on iterating and returns when the loop ends.
SpecFair == Spec /\ WF_vars(MatchStep) /\ WF_vars(ReturnBalances)

SpecConcurrent == Init /\ [][NextConcurrent]_vars


(***************************************************************************)
(* split_service.go, group_service.go: the request handlers over the store *)
(***************************************************************************)
\* The number of bills plus settlements the store may hold.
MaxStored == 2

CodeOK == "ok"
CodeInvalidArgument == "invalid_argument"
CodeInternal == "internal"
CodeNotFound == "not_found"
CodePermissionDenied == "permission_denied"
CodeUnauthenticated == "unauthenticated"

Response(rpc, code, e) == [rpc |-> rpc, code |-> code, err |-> e]

ErrAuthRequired == "authentication required"
ErrStore == "storage failure"

\* validatePayerID with the check left out.
validatePayerIDAcceptingAll(payerID, participants) == ""

\* validatePayerID checks if the payer is one of the participants; "" for nil.
validatePayerID(payerID, participants) ==
    IF payerID = "" THEN ""
    ELSE IF \E n \in DOMAIN participants : participants[n] = payerID THEN ""
    ELSE "payer_id '" \o payerID \o "' must be one of the participants"

isParticipant(userID, participants) ==
    \E n \in DOMAIN participants : participants[n] = userID

\* The members of a group are rows of a table keyed by group and name: a set.
isMember(userID, members) == userID \in members

findNewParticipants(participants, existingMembers) ==
    {p \in participants : p \notin existingMembers}

\* The groups after autoAddParticipantsToGroup: any bill participants (and
\* the payer) not already in the group are added; without a group id, or with
\* one the store does not know, nothing happens.
autoAddParticipantsToGroup(groups, groupID, participants, payerID) ==
    IF groupID = "" \/ groupID \notin DOMAIN groups THEN groups
    ELSE LET allPeople ==
                 Range(participants) \cup
                 (IF payerID # "" /\ ~isParticipant(payerID, participants)
                  THEN {payerID} ELSE {})
             newMembers == findNewParticipants(allPeople, groups[groupID])
         IN  [groups EXCEPT ![groupID] = @ \cup newMembers]

\* The id the store gives a new record (a fresh UUID in the code).
NewId(store) == CHOOSE n \in 1..(Cardinality(DOMAIN store) + 1) : n \notin DOMAIN store

Insert(store, id, record) ==
    [k \in DOMAIN store \cup {id} |-> IF k = id THEN record ELSE store[k]]

\* Room for one more bill or settlement.
StoreHasRoom ==
    Cardinality(DOMAIN storeBills) + Cardinality(DOMAIN storeSettlements) < MaxStored

\* The ids of S, latest first (ORDER BY created_at DESC; ids grow with time).
RECURSIVE LatestFirst(_)
LatestFirst(S) ==
    IF S = {} THEN << >>
    ELSE LET m == CHOOSE x \in S : \A y \in S : y <= x
         IN  <<m>> \o LatestFirst(S \ {m})

\* The bill built from a CreateBill or UpdateBill request.
BillOf(req) ==
    [Items |-> req.Items, Total |-> req.Total, Subtotal |-> req.Subtotal,
     Participants |-> req.ParticipantIds, GroupID |-> req.GroupId,
     PayerID |-> req.PayerId]

\* calculator.BillForBalance of a stored bill.
BillForBalance(bill) ==
    [Total |-> bill.Total, Subtotal |-> bill.Subtotal, PayerID |-> bill.PayerID,
     Items |-> bill.Items, Participants |-> bill.Participants]

\* calculator.SettlementForBalance of a stored settlement.
SettlementForBalance(settlement) ==
    [FromUserID |-> settlement.FromUserID, ToUserID |-> settlement.ToUserID,
     Amount |-> settlement.Amount]

\* The bills and settlements GetGroupBalances hands to the calculator.
BillsOfGroup(groupID) ==
    LET ids == LatestFirst({id \in DOMAIN storeBills :
                               storeBills[id].GroupID = groupID})
    IN  [n \in DOMAIN ids |-> BillForBalance(storeBills[ids[n]])]

SettlementsOfGroup(groupID) ==
    LET ids == LatestFirst({id \in DOMAIN storeSettlements :
                               storeSettlements[id].GroupID = groupID})
    IN  [n \in DOMAIN ids |-> SettlementForBalance(storeSettlements[ids[n]])]

(***************************************************************************)
(* Requests.                                                               *)
(***************************************************************************)
\* The authenticated user of a request; "" for none.
Callers == {"", "a", "c"}

BillRequest(total, subtotal, participants, payer) ==
    [Items |-> << >>, Total |-> FromInt(total), Subtotal |-> FromInt(subtotal),
     ParticipantIds |-> participants, GroupId |-> "g", PayerId |-> payer]

BillRequests ==
    { BillRequest(33, 30, <<"a", "b">>, "a"),   \* a bill a paid
      BillRequest(33, 30, <<"a", "b">>, "c"),   \* payer not a participant
      BillRequest(33, 0, <<"a", "b">>, "a"),    \* zero subtotal
      BillRequest(33, 30, << >>, ""),           \* no participants, no payer
      BillRequest(33, 30, <<"b">>, "b") }       \* a bill of b alone

SettlementRequest(group, from, to, amount) ==
    [GroupId |-> group, FromUserId |-> from, ToUserId |-> to,
     Amount |-> FromInt(amount)]

SettlementRequests ==
    { SettlementRequest("g", "b", "a", 30),
      SettlementRequest("g", "a", "a", 30),     \* from = to
      SettlementRequest("g", "b", "a", 0),      \* zero
      SettlementRequest("g", "b", "a", -30),    \* negative
      SettlementRequest("g", "c", "a", 30),     \* c may not be a member
      SettlementRequest("g", "a", "c", 30),
      SettlementRequest("h", "b", "a", 30),     \* no such group
      SettlementRequest("", "b", "a", 30),      \* required fields missing
      SettlementRequest("g", "", "a", 30),
      SettlementRequest("g", "b", "", 30) }

\* member_ids of a CreateGroup request.
GroupRequests == {{}, {"b"}}

(***************************************************************************)
(* Handlers: one action per request, from entry to response.               *)
(***************************************************************************)
Reply(r) == resp' = r

\* GroupService.CreateGroup; the store has room for the group "g".
HandleCreateGroup(userID, memberIDs, storeOK) ==
    /\ "g" \notin DOMAIN storeGroups
    /\ IF userID = ""
       THEN /\ Reply(Response("CreateGroup", CodeUnauthenticated, ErrAuthRequired))
            /\ UNCHANGED storeGroups
       ELSE LET members == IF isMember(userID, memberIDs) THEN memberIDs
                           ELSE {userID} \cup memberIDs
            IN  IF ~storeOK
                THEN /\ Reply(Response("CreateGroup", CodeInternal, ErrStore))
                     /\ UNCHANGED storeGroups
                ELSE /\ Reply(Response("CreateGroup", CodeOK, ""))
                     /\ storeGroups' = Insert(storeGroups, "g", members)
    /\ UNCHANGED <<storeBills, storeSettlements, splitVars, balanceVars, calls>>

\* SplitService.CalculateSplit
HandleCalculateSplit(req) ==
    /\ LET res == CalculateSplit(req.Items, req.Total, req.Subtotal,
                                 req.ParticipantIds)
       IN  IF res.err # ""
           THEN Reply(Response("CalculateSplit", CodeInvalidArgument, res.err))
           ELSE Reply(Response("CalculateSplit", CodeOK, ""))
    /\ UNCHANGED <<storeBills, storeGroups, storeSettlements, splitVars,
                   balanceVars, calls>>

\* SplitService.CreateBill
HandleCreateBill(userID, req, storeOK) ==
    /\ IF userID = ""
       THEN /\ Reply(Response("CreateBill", CodeUnauthenticated, ErrAuthRequired))
            /\ UNCHANGED <<storeBills, storeGroups>>
       ELSE IF ~isParticipant(userID, req.ParticipantIds)
       THEN /\ Reply(Response("CreateBill", CodePermissionDenied,
                              "you must be a participant to create this bill"))
            /\ UNCHANGED <<storeBills, storeGroups>>
       ELSE IF validatePayerID(req.PayerId, req.ParticipantIds) # ""
       THEN /\ Reply(Response("CreateBill", CodeInvalidArgument,
                              validatePayerID(req.PayerId, req.ParticipantIds)))
            /\ UNCHANGED <<storeBills, storeGroups>>
       ELSE IF ~storeOK
       THEN /\ Reply(Response("CreateBill", CodeInternal, ErrStore))
            /\ UNCHANGED <<storeBills, storeGroups>>
       ELSE LET bill == BillOf(req)
                res == CalculateSplit(req.Items, req.Total, req.Subtotal,
                                      req.ParticipantIds)
            IN  /\ StoreHasRoom
                /\ storeBills' = Insert(storeBills, NewId(storeBills), bill)
                /\ storeGroups' = autoAddParticipantsToGroup(
                                      storeGroups, bill.GroupID,
                                      bill.Participants, bill.PayerID)
                /\ IF res.err # ""
                   THEN Reply(Response("CreateBill", CodeInvalidArgument, res.err))
                   ELSE Reply(Response("CreateBill", CodeOK, ""))
    /\ UNCHANGED <<storeSettlements, splitVars, balanceVars, calls>>

\* SplitService.UpdateBill
HandleUpdateBill(userID, billID, req, storeOK) ==
    /\ IF userID = ""
       THEN /\ Reply(Response("UpdateBill", CodeUnauthenticated, ErrAuthRequired))
            /\ UNCHANGED <<storeBills, storeGroups>>
       ELSE IF billID \notin DOMAIN storeBills
       THEN /\ Reply(Response("UpdateBill", CodeNotFound, "bill not found"))
            /\ UNCHANGED <<storeBills, storeGroups>>
       ELSE IF ~isParticipant(userID, storeBills[billID].Participants)
       THEN /\ Reply(Response("UpdateBill", CodePermissionDenied,
                              "you must be a participant to update this bill"))
            /\ UNCHANGED <<storeBills, storeGroups>>
       ELSE IF validatePayerID(req.PayerId, req.ParticipantIds) # ""
       THEN /\ Reply(Response("UpdateBill", CodeInvalidArgument,
                              validatePayerID(req.PayerId, req.ParticipantIds)))
            /\ UNCHANGED <<storeBills, storeGroups>>
       ELSE IF ~storeOK
       THEN /\ Reply(Response("UpdateBill", CodeNotFound, ErrStore))
            /\ UNCHANGED <<storeBills, storeGroups>>
       ELSE LET bill == BillOf(req)
                res == CalculateSplit(req.Items, req.Total, req.Subtotal,
                                      req.ParticipantIds)
            IN  /\ storeBills' = Insert(storeBills, billID, bill)
                /\ storeGroups' = autoAddParticipantsToGroup(
                                      storeGroups, bill.GroupID,
                                      bill.Participants, bill.PayerID)
                /\ IF res.err # ""
                   THEN Reply(Response("UpdateBill", CodeInvalidArgument, res.err))
                   ELSE Reply(Response("UpdateBill", CodeOK, ""))
    /\ UNCHANGED <<storeSettlements, splitVars, balanceVars, calls>>

\* SplitService.GetBill
HandleGetBill(userID, billID) ==
    /\ IF userID = ""
       THEN Reply(Response("GetBill", CodeUnauthenticated, ErrAuthRequired))
       ELSE IF billID \notin DOMAIN storeBills
       THEN Reply(Response("GetBill", CodeNotFound, "bill not found"))
       ELSE IF ~isParticipant(userID, storeBills[billID].Participants)
       THEN Reply(Response("GetBill", CodePermissionDenied,
                           "you must be a participant to view this bill"))
       ELSE LET bill == storeBills[billID]
                res == CalculateSplit(bill.Items, bill.Total, bill.Subtotal,
                                      bill.Participants)
            IN  IF res.err # ""
                THEN Reply(Response("GetBill", CodeInternal, res.err))
                ELSE Reply(Response("GetBill", CodeOK, ""))
    /\ UNCHANGED <<storeBills, storeGroups, storeSettlements, splitVars,
                   balanceVars, calls>>

\* GroupService.GetGroupBalances
HandleGetGroupBalances(groupID) ==
    /\ IF groupID = ""
       THEN Reply(Response("GetGroupBalances", CodeInvalidArgument,
                           "group_id required"))
       ELSE IF groupID \notin DOMAIN storeGroups
       THEN Reply(Response("GetGroupBalances", CodeNotFound, "group not found"))
       ELSE LET agg == Aggregate(BillsOfGroup(groupID),
                                 SettlementsOfGroup(groupID))
            IN  IF agg.err # ""
                THEN Reply(Response("GetGroupBalances", CodeInternal, agg.err))
                ELSE Reply(Response("GetGroupBalances", CodeOK, ""))
    /\ UNCHANGED <<storeBills, storeGroups, storeSettlements, splitVars,
                   balanceVars, calls>>

\* The validation of a RecordSettlement request with the from = to check
\* left out.
settlementRequestErrorAllowingSelf(req) ==
    IF req.GroupId = "" THEN "group_id required"
    ELSE IF req.FromUserId = "" THEN "from_user_id required"
    ELSE IF req.ToUserId = "" THEN "to_user_id required"
    ELSE IF ~Gt(req.Amount, Zero) THEN "amount must be positive"
    ELSE ""

\* The validation of a RecordSettlement request before the store is read;
\* "" when it passes.
settlementRequestError(req) ==
    IF req.GroupId = "" THEN "group_id required"
    ELSE IF req.FromUserId = "" THEN "from_user_id required"
    ELSE IF req.ToUserId = "" THEN "to_user_id required"
    ELSE IF ~Gt(req.Amount, Zero) THEN "amount must be positive"
    ELSE IF req.FromUserId = req.ToUserId
    THEN "from_user_id and to_user_id must be different"
    ELSE ""

\* GroupService.RecordSettlement
HandleRecordSettlement(userID, req, storeOK) ==
    /\ IF userID = ""
       THEN /\ Reply(Response("RecordSettlement", CodeUnauthenticated,
                              ErrAuthRequired))
            /\ UNCHANGED storeSettlements
       ELSE IF settlementRequestError(req) # ""
       THEN /\ Reply(Response("RecordSettlement", CodeInvalidArgument,
                              settlementRequestError(req)))
            /\ UNCHANGED storeSettlements
       ELSE IF req.GroupId \notin DOMAIN storeGroups
       THEN /\ Reply(Response("RecordSettlement", CodeNotFound, "group not found"))
            /\ UNCHANGED storeSettlements
       ELSE IF ~isMember(userID, storeGroups[req.GroupId])
       THEN /\ Reply(Response("RecordSettlement", CodePermissionDenied,
                              "not a member of this group"))
            /\ UNCHANGED storeSettlements
       ELSE IF ~isMember(req.FromUserId, storeGroups[req.GroupId])
       THEN /\ Reply(Response("RecordSettlement", CodeInvalidArgument,
                              "from_user is not a member of this group"))
            /\ UNCHANGED storeSettlements
       ELSE IF ~isMember(req.ToUserId, storeGroups[req.GroupId])
       THEN /\ Reply(Response("RecordSettlement", CodeInvalidArgument,
                              "to_user is not a member of this group"))
            /\ UNCHANGED storeSettlements
       ELSE IF ~storeOK
       THEN /\ Reply(Response("RecordSettlement", CodeInternal, ErrStore))
            /\ UNCHANGED storeSettlements
       ELSE /\ StoreHasRoom
            /\ storeSettlements' =
                   Insert(storeSettlements, NewId(storeSettlements),
                          [GroupID |-> req.GroupId, FromUserID |-> req.FromUserId,
                           ToUserID |-> req.ToUserId, Amount |-> req.Amount,
                           CreatedBy |-> userID])
            /\ Reply(Response("RecordSettlement", CodeOK, ""))
    /\ UNCHANGED <<storeBills, storeGroups, splitVars, balanceVars, calls>>

\* The ids a request may name: those of the store and one it does not hold.
BillIds == 1..(MaxStored + 1)

CreateGroupRPC ==
    /\ \E userID \in Callers, memberIDs \in GroupRequests, storeOK \in BOOLEAN :
           HandleCreateGroup(userID, memberIDs, storeOK)
    /\ UNCHANGED raceVars

CalculateSplitRPC ==
    /\ \E req \in BillRequests : HandleCalculateSplit(req)
    /\ UNCHANGED raceVars

CreateBillRPC ==
    /\ \E userID \in Callers, req \in BillRequests, storeOK \in BOOLEAN :
           HandleCreateBill(userID, req, storeOK)
    /\ UNCHANGED raceVars

UpdateBillRPC ==
    /\ \E userID \in Callers, billID \in BillIds, req \in BillRequests,
          storeOK \in BOOLEAN :
           HandleUpdateBill(userID, billID, req, storeOK)
    /\ UNCHANGED raceVars

GetBillRPC ==
    /\ \E userID \in Callers, billID \in BillIds : HandleGetBill(userID, billID)
    /\ UNCHANGED raceVars

GetGroupBalancesRPC ==
    /\ \E groupID \in {"", "g", "h"} : HandleGetGroupBalances(groupID)
    /\ UNCHANGED raceVars

RecordSettlementRPC ==
    /\ \E userID \in Callers, req \in SettlementRequests, storeOK \in BOOLEAN :
           HandleRecordSettlement(userID, req, storeOK)
    /\ UNCHANGED raceVars

NextService ==
    \/ CreateGroupRPC
    \/ CalculateSplitRPC
    \/ CreateBillRPC
    \/ UpdateBillRPC
    \/ GetBillRPC
    \/ GetGroupBalancesRPC
    \/ RecordSettlementRPC

SpecService == Init /\ [][NextService]_vars

(***************************************************************************)
(* Requests that overlap: GetGroupBalances of group "g" handled one store  *)
(* call at a time, while other requests are handled in between.            *)
(***************************************************************************)
\* Remove deleting every record: a DELETE without its WHERE.
RemoveAll(store, id) == [k \in {} |-> store[k]]

\* DELETE FROM settlements WHERE id = ?
Remove(store, id) == [k \in DOMAIN store \ {id} |-> store[k]]

\* Settlement ids of a DeleteSettlement request; 0 for the empty id.
SettlementIds == 0..(MaxStored + 1)

\* GroupService.DeleteSettlement
HandleDeleteSettlement(userID, settlementID, storeOK) ==
    /\ IF userID = ""
       THEN /\ Reply(Response("DeleteSettlement", CodeUnauthenticated,
                              ErrAuthRequired))
            /\ UNCHANGED storeSettlements
       ELSE IF settlementID = 0
       THEN /\ Reply(Response("DeleteSettlement", CodeInvalidArgument,
                              "settlement_id required"))
            /\ UNCHANGED storeSettlements
       ELSE IF settlementID \notin DOMAIN storeSettlements
       THEN /\ Reply(Response("DeleteSettlement", CodeNotFound,
                              "settlement not found"))
            /\ UNCHANGED storeSettlements
       ELSE IF storeSettlements[settlementID].GroupID \notin DOMAIN storeGroups
       THEN /\ Reply(Response("DeleteSettlement", CodeInternal, "group not found"))
            /\ UNCHANGED storeSettlements
       ELSE IF ~isMember(userID, storeGroups[storeSettlements[settlementID].GroupID])
       THEN /\ Reply(Response("DeleteSettlement", CodePermissionDenied,
                              "not a member of this group"))
            /\ UNCHANGED storeSettlements
       ELSE IF ~storeOK
       THEN /\ Reply(Response("DeleteSettlement", CodeInternal, ErrStore))
            /\ UNCHANGED storeSettlements
       ELSE /\ storeSettlements' = Remove(storeSettlements, settlementID)
            /\ Reply(Response("DeleteSettlement", CodeOK, ""))
    /\ UNCHANGED <<storeBills, storeGroups, splitVars, balanceVars, calls>>

\* The bills and settlements of group "g" in the store, and the balances
\* CalculateGroupBalances makes of them: [err, balances].
Snapshot == <<BillsOfGroup("g"), SettlementsOfGroup("g")>>

GroupOutput == Aggregate(BillsOfGroup("g"), SettlementsOfGroup("g"))

\* What a step of another request leaves for the observers: the request under
\* way has one more state of the store in its time; the settlement recorded
\* last is remembered with the balances before it, and with its deletion when
\* that is the next write, until another write.
Track ==
    /\ gb' = IF gb.pc = "bills" THEN [gb EXCEPT !.seen = @ \cup {Snapshot'}]
             ELSE gb
    /\ undo' = IF resp'.rpc = "RecordSettlement" /\ resp'.code = CodeOK
               THEN [id |-> CHOOSE id \in DOMAIN storeSettlements' :
                                id \notin DOMAIN storeSettlements,
                     before |-> GroupOutput,
                     deleted |-> FALSE]
               ELSE IF /\ resp'.rpc = "DeleteSettlement" /\ resp'.code = CodeOK
                       /\ undo.id \in DOMAIN storeSettlements
                       /\ undo.id \notin DOMAIN storeSettlements'
               THEN [undo EXCEPT !.deleted = TRUE]
               ELSE IF storeBills' # storeBills
                       \/ storeSettlements' # storeSettlements
               THEN NoUndo
               ELSE undo

\* The requests that overlap: member a creates group "g" with b, writes two
\* kinds of bill, and records and deletes settlements.
RaceBillRequests ==
    { BillRequest(33, 30, <<"a", "b">>, "a"),
      BillRequest(66, 60, <<"a", "b">>, "b") }

RaceSettlementRequests == { SettlementRequest("g", "b", "a", 30) }

RaceCreateGroup ==
    /\ HandleCreateGroup("a", {"b"}, TRUE)
    /\ Track

RaceCreateBill ==
    /\ \E req \in RaceBillRequests : HandleCreateBill("a", req, TRUE)
    /\ Track

RaceUpdateBill ==
    /\ \E billID \in BillIds, req \in RaceBillRequests :
           HandleUpdateBill("a", billID, req, TRUE)
    /\ Track

RaceRecordSettlement ==
    /\ \E req \in RaceSettlementRequests : HandleRecordSettlement("a", req, TRUE)
    /\ Track

RaceDeleteSettlement ==
    /\ \E userID \in {"a", "c"}, settlementID \in SettlementIds :
           HandleDeleteSettlement(userID, settlementID, TRUE)
    /\ Track

\* GetGroupBalances, from entry to the list of the group's bills.
BeginGetGroupBalances ==
    /\ gb.pc \in {"idle", "done"}
    /\ IF "g" \notin DOMAIN storeGroups
       THEN /\ Reply(Response("GetGroupBalances", CodeNotFound, "group not found"))
            /\ gb' = [NoRequest EXCEPT !.pc = "done", !.code = CodeNotFound]
       ELSE /\ gb' = [NoRequest EXCEPT
                         !.pc = "bills",
                         !.listed = LatestFirst({id \in DOMAIN storeBills :
                                                    storeBills[id].GroupID = "g"}),
                         !.seen = {Snapshot}]
            /\ UNCHANGED resp
    /\ UNCHANGED <<storeBills, storeGroups, storeSettlements, undo, splitVars,
                   balanceVars, calls>>

\* GetGroupBalances, one turn of the loop that fetches the listed bills.
FetchListedBill ==
    /\ gb.pc = "bills"
    /\ Len(gb.fetched) < Len(gb.listed)
    /\ LET id == gb.listed[Len(gb.fetched) + 1]
       IN  IF id \notin DOMAIN storeBills
           THEN /\ Reply(Response("GetGroupBalances", CodeInternal,
                                  "bill not found"))
                /\ gb' = [gb EXCEPT !.pc = "done", !.code = CodeInternal]
           ELSE /\ gb' = [gb EXCEPT !.fetched =
                             Append(@, BillForBalance(storeBills[id]))]
                /\ UNCHANGED resp
    /\ UNCHANGED <<storeBills, storeGroups, storeSettlements, undo, splitVars,
                   balanceVars, calls>>

\* GetGroupBalances, from the list of the settlements to the response.
FinishGetGroupBalances ==
    /\ gb.pc = "bills"
    /\ Len(gb.fetched) = Len(gb.listed)
    /\ \E agg \in {Aggregate(gb.fetched, SettlementsOfGroup("g"))} :
           IF agg.err # ""
           THEN /\ Reply(Response("GetGroupBalances", CodeInternal, agg.err))
                /\ gb' = [gb EXCEPT !.pc = "done", !.code = CodeInternal]
           ELSE /\ Reply(Response("GetGroupBalances", CodeOK, ""))
                /\ gb' = [gb EXCEPT !.pc = "done", !.code = CodeOK,
                                    !.balances = agg.balances]
    /\ UNCHANGED <<storeBills, storeGroups, storeSettlements, undo, splitVars,
                   balanceVars, calls>>

NextRace ==
    \/ RaceCreateGroup
    \/ RaceCreateBill
    \/ RaceUpdateBill
    \/ RaceRecordSettlement
    \/ RaceDeleteSettlement
    \/ BeginGetGroupBalances
    \/ FetchListedBill
    \/ FinishGetGroupBalances

SpecRace == Init /\ [][NextRace]_vars


(***************************************************************************)
(* Properties of CalculateSplit (checked under SpecSplit).                 *)
(***************************************************************************)
RECURSIVE SumOver(_, _)
SumOver(f, S) ==
    IF S = {} THEN Zero
    ELSE LET x == CHOOSE y \in S : TRUE IN Add(f[x], SumOver(f, S \ {x}))

SumOfTotals(splits) == SumOver([p \in DOMAIN splits |-> splits[p].Total], DOMAIN splits)
SumOfSubtotals(splits) ==
    SumOver([p \in DOMAIN splits |-> splits[p].Subtotal], DOMAIN splits)

Distinct(seq) == \A m, n \in DOMAIN seq : seq[m] = seq[n] => m = n

\* The sum of the amounts of the items that name somebody.
RECURSIVE ItemizedTotal(_, _)
ItemizedTotal(items, k) ==
    IF k > Len(items) THEN Zero
    ELSE Add(IF Len(items[k].Participants) = 0 THEN Zero ELSE items[k].Amount,
             ItemizedTotal(items, k + 1))

\* A bill whose participants are pairwise distinct, whose items name only
\* participants, and whose itemized amounts (if it has items) do not exceed
\* the subtotal.
ConsistentBill(items, billSubtotal, participants) ==
    /\ Distinct(participants)
    /\ \A k \in DOMAIN items : Range(items[k].Participants) \subseteq Range(participants)
    /\ Len(items) = 0 \/ ~Lt(billSubtotal, ItemizedTotal(items, 1))

\* The call is one CalculateSplit accepts.
SplitAccepted ==
    /\ splitCalled
    /\ ~IsZero(splitArgs.billSubtotal)
    /\ Len(splitArgs.participants) > 0

SplitConsistent ==
    ConsistentBill(splitArgs.items, splitArgs.billSubtotal, splitArgs.participants)

\* C1 as stated: for every accepted call, whatever the items and the people
\* they name, the Totals of the returned map add up to billTotal.
C1_TotalsSumToBillTotal_AnyItems ==
    SplitAccepted => SumOfTotals(splitRet.splits) = splitArgs.billTotal

\* C1 amended: for every accepted call whose participants are pairwise
\* distinct, whose items name only participants and whose itemized amounts (if
\* there are items) do not exceed billSubtotal, the Totals of the returned map
\* add up to billTotal.
C1_TotalsSumToBillTotal ==
    (SplitAccepted /\ SplitConsistent)
        => SumOfTotals(splitRet.splits) = splitArgs.billTotal

\* An itemized call with a shared remainder and unequal shares whose totals
\* add up to the bill total.
C1_Witness ==
    /\ SplitAccepted
    /\ SplitConsistent
    /\ Len(splitArgs.items) > 0
    /\ Lt(ItemizedTotal(splitArgs.items, 1), splitArgs.billSubtotal)
    /\ \E p, q \in DOMAIN splitRet.splits :
           Lt(splitRet.splits[p].Total, splitRet.splits[q].Total)
    /\ SumOfTotals(splitRet.splits) = splitArgs.billTotal

\* C2 as stated: for every accepted call the Subtotals of the returned map add
\* up to billSubtotal, whatever the items are and whether or not their amounts
\* add up to billSubtotal.
C2_SubtotalsSumToBillSubtotal_AnyItems ==
    SplitAccepted => SumOfSubtotals(splitRet.splits) = splitArgs.billSubtotal

\* C2 amended: for every accepted call whose participants are pairwise
\* distinct, whose items name only participants and whose itemized amounts (if
\* there are items) add up to billSubtotal or less, the Subtotals of the
\* returned map add up to billSubtotal.
C2_SubtotalsSumToBillSubtotal ==
    (SplitAccepted /\ SplitConsistent)
        => SumOfSubtotals(splitRet.splits) = splitArgs.billSubtotal

\* Items that cover less than the subtotal, one participant without any item,
\* and subtotals that still add up to billSubtotal.
C2_Witness ==
    /\ SplitAccepted
    /\ SplitConsistent
    /\ Len(splitArgs.items) > 0
    /\ Lt(Zero, ItemizedTotal(splitArgs.items, 1))
    /\ Lt(ItemizedTotal(splitArgs.items, 1), splitArgs.billSubtotal)
    /\ \E p \in DOMAIN splitRet.splits : Len(splitRet.splits[p].Items) = 1
    /\ SumOfSubtotals(splitRet.splits) = splitArgs.billSubtotal

\* Every participant's Tax is Subtotal x (billTotal - billSubtotal) /
\* billSubtotal and Total is Subtotal + Tax.
TaxIsProportional ==
    LET tax == Sub(splitArgs.billTotal, splitArgs.billSubtotal)
        splits == splitRet.splits
    IN  \A p \in DOMAIN splits :
            /\ splits[p].Tax =
                   Div(Mul(splits[p].Subtotal, tax), splitArgs.billSubtotal)
            /\ splits[p].Total = Add(splits[p].Subtotal, splits[p].Tax)

\* A larger subtotal never carries a smaller tax.
TaxIsMonotone ==
    \A p, q \in DOMAIN splitRet.splits :
        Gt(splitRet.splits[p].Subtotal, splitRet.splits[q].Subtotal)
            => ~Lt(splitRet.splits[p].Tax, splitRet.splits[q].Tax)

\* C6 as stated: in every successful result, itemized or not, each
\* participant's Tax is Subtotal x (billTotal - billSubtotal) / billSubtotal
\* and Total is Subtotal + Tax, so with a positive tax a larger subtotal never
\* carries a smaller tax.
C6_ProportionalTax_AnySubtotal ==
    (splitCalled /\ splitRet.err = "") =>
        /\ TaxIsProportional
        /\ Gt(splitArgs.billTotal, splitArgs.billSubtotal) => TaxIsMonotone

\* C6 amended: in every successful result, itemized or not, each participant's
\* Tax is Subtotal x (billTotal - billSubtotal) / billSubtotal and Total is
\* Subtotal + Tax, so with a positive tax and a positive billSubtotal a larger
\* subtotal never carries a smaller tax.
C6_ProportionalTax ==
    (splitCalled /\ splitRet.err = "") =>
        /\ TaxIsProportional
        /\ (Gt(splitArgs.billTotal, splitArgs.billSubtotal)
              /\ Gt(splitArgs.billSubtotal, Zero)) => TaxIsMonotone

\* An itemized result with a positive tax where one participant has the larger
\* subtotal and the larger tax.
C6_Witness ==
    /\ splitCalled
    /\ splitRet.err = ""
    /\ Len(splitArgs.items) > 0
    /\ Gt(splitArgs.billTotal, splitArgs.billSubtotal)
    /\ Gt(splitArgs.billSubtotal, Zero)
    /\ \E p, q \in DOMAIN splitRet.splits :
         /\ Gt(splitRet.splits[p].Subtotal, splitRet.splits[q].Subtotal)
         /\ Gt(splitRet.splits[p].Tax, splitRet.splits[q].Tax)
         /\ Gt(splitRet.splits[q].Tax, Zero)

\* C7: CalculateSplit returns an error and no map exactly when billSubtotal is
\* zero or participants is empty, the zero-subtotal error first; every other
\* call, negative tax included, returns a map and no error.
C7_ErrorExactlyOnBadInput ==
    splitCalled =>
        LET zero == IsZero(splitArgs.billSubtotal)
            empty == Len(splitArgs.participants) = 0
        IN  /\ zero => splitRet.err = ErrZeroSubtotal
            /\ (~zero /\ empty) => splitRet.err = ErrNoParticipants
            /\ (~zero /\ ~empty) => splitRet.err = ""
            /\ splitRet.err # "" => DOMAIN splitRet.splits = {}
            /\ splitRet.err = "" =>
                   DOMAIN splitRet.splits = Range(splitArgs.participants)

\* A call with a zero subtotal and no participants, answered with the
\* zero-subtotal error.
C7_Witness ==
    /\ splitCalled
    /\ IsZero(splitArgs.billSubtotal)
    /\ Len(splitArgs.participants) = 0
    /\ splitRet.err = ErrZeroSubtotal
    /\ DOMAIN splitRet.splits = {}

\* A call with a negative tax that succeeds.
C7_WitnessNegativeTax ==
    /\ splitCalled
    /\ Lt(splitArgs.billTotal, splitArgs.billSubtotal)
    /\ splitRet.err = ""


(***************************************************************************)
(* Properties of CalculateGroupBalances (checked under Spec).              *)
(***************************************************************************)
Returned == pc = "done"
Succeeded == pc = "done" /\ err = ""

SumSeq(seq) == SumOver(seq, DOMAIN seq)
NetBalances(list) == [k \in DOMAIN list |-> list[k].NetBalance]

HasPayer(bill) == bill.PayerID # ""
SplitOf(bill) ==
    CalculateSplit(bill.Items, bill.Total, bill.Subtotal, bill.Participants)
Rejected(bill) == SplitOf(bill).err # ""

\* P's Total share of a bill, zero when the split has no entry for P.
ShareOf(P, bill) ==
    LET splits == SplitOf(bill).splits
    IN  IF P \in DOMAIN splits THEN splits[P].Total ELSE Zero

PayerBillsConsistent ==
    \A k \in DOMAIN bills :
        HasPayer(bills[k]) =>
            ConsistentBill(bills[k].Items, bills[k].Subtotal, bills[k].Participants)

\* C3 as stated: whenever CalculateGroupBalances succeeds, the NetBalances of
\* the returned members add up to zero.
C3_NetBalancesSumToZero_AnyBills ==
    Succeeded => SumSeq(NetBalances(memberBalances)) = Zero

\* C3 amended: whenever CalculateGroupBalances succeeds on bills of which every
\* one with a payer has pairwise distinct participants, items naming only
\* participants and itemized amounts of at most its subtotal, the NetBalances
\* of the returned members add up to zero, and the creditors' total credit
\* equals the debtors' total debt.
C3_NetBalancesSumToZero ==
    (err = "" /\ pc # "idle" /\ PayerBillsConsistent) =>
        /\ SumSeq(NetBalances(memberBalances)) = Zero
        /\ SumSeq(NetBalances(creditors)) = Sub(Zero, SumSeq(NetBalances(debtors)))

\* Two bills with different payers and a settlement, creditors and debtors on
\* both sides, and balances that add up to zero.
C3_Witness ==
    /\ Succeeded
    /\ PayerBillsConsistent
    /\ \E m, n \in DOMAIN bills :
          /\ HasPayer(bills[m]) /\ HasPayer(bills[n])
          /\ bills[m].PayerID # bills[n].PayerID
    /\ Len(settlements) > 0
    /\ Len(creditors) > 0
    /\ Len(debtors) > 1
    /\ SumSeq(NetBalances(memberBalances)) = Zero

\* What the returned edges pay to P minus what they take from P.
EdgeFlow(P) ==
    SumSeq([k \in DOMAIN debtEdges |->
              IF debtEdges[k].To = P /\ debtEdges[k].From # P
              THEN debtEdges[k].Amount
              ELSE IF debtEdges[k].From = P /\ debtEdges[k].To # P
              THEN Sub(Zero, debtEdges[k].Amount)
              ELSE Zero])

WithinEpsilon(x, y) == ~Gt(Sub(x, y), Epsilon) /\ ~Gt(Sub(y, x), Epsilon)

\* C4: in every successful result (here: one whose net balances add up to
\* zero, from consistent bills), for every participant P with a non-zero
\* NetBalance, the edges to P minus the edges from P equal P's NetBalance
\* within 0.01.
C4_DebtEdgesConserveBalances ==
    (Succeeded /\ PayerBillsConsistent) =>
        \A k \in DOMAIN memberBalances :
            ~IsZero(memberBalances[k].NetBalance) =>
                WithinEpsilon(EdgeFlow(memberBalances[k].MemberName),
                              memberBalances[k].NetBalance)

PaidInBills(P) ==
    SumSeq([k \in DOMAIN bills |->
              IF HasPayer(bills[k]) /\ bills[k].PayerID = P
              THEN bills[k].Total ELSE Zero])

OwedInBills(P) ==
    SumSeq([k \in DOMAIN bills |->
              IF HasPayer(bills[k]) THEN ShareOf(P, bills[k]) ELSE Zero])

PaidInSettlements(P) ==
    SumSeq([k \in DOMAIN settlements |->
              IF settlements[k].FromUserID = P THEN settlements[k].Amount ELSE Zero])

ReceivedInSettlements(P) ==
    SumSeq([k \in DOMAIN settlements |->
              IF settlements[k].ToUserID = P THEN settlements[k].Amount ELSE Zero])

\* C5: in a successful result every member P has TotalPaid = the Totals of the
\* bills P paid plus the settlements P paid, TotalOwed = P's split Totals over
\* the bills with a payer plus the settlements P received, and
\* NetBalance = TotalPaid - TotalOwed.
C5_PaidOwedNet ==
    Succeeded =>
        \A k \in DOMAIN memberBalances :
            LET bal == memberBalances[k]
                P == bal.MemberName
            IN  /\ bal.TotalPaid = Add(PaidInBills(P), PaidInSettlements(P))
                /\ bal.TotalOwed = Add(OwedInBills(P), ReceivedInSettlements(P))
                /\ bal.NetBalance = Sub(bal.TotalPaid, bal.TotalOwed)

\* A member who paid a bill, owes a share of another, paid one settlement and
\* received another.
C5_Witness ==
    /\ Succeeded
    /\ \E k \in DOMAIN memberBalances :
        LET P == memberBalances[k].MemberName
        IN  /\ Gt(PaidInBills(P), Zero)
            /\ Gt(OwedInBills(P), ShareOf(P, bills[1]))
            /\ Gt(PaidInSettlements(P), Zero)
            /\ memberBalances[k].TotalPaid =
                   Add(PaidInBills(P), PaidInSettlements(P))
            /\ ~IsZero(memberBalances[k].NetBalance)

\* C8 as stated: if any bill of the input is one CalculateSplit rejects, the
\* call returns an error, no member balances and no debt edges.
C8_RejectedBillAborts_AnyBill ==
    (Returned /\ \E k \in DOMAIN bills : Rejected(bills[k])) =>
        /\ err # ""
        /\ memberBalances = << >>
        /\ debtEdges = << >>

\* C8 amended: if any bill of the input that has a payer is one CalculateSplit
\* rejects, then, wherever it stands and whatever the other bills and
\* settlements are, the call returns the split error, no member balances and
\* no debt edges.
C8_RejectedBillAborts ==
    (Returned /\ \E k \in DOMAIN bills : HasPayer(bills[k]) /\ Rejected(bills[k])) =>
        /\ err \in {ErrSplitPrefix \o ErrZeroSubtotal,
                    ErrSplitPrefix \o ErrNoParticipants}
        /\ memberBalances = << >>
        /\ debtEdges = << >>

\* A rejected bill with a payer standing last, after a good bill, with a
\* settlement in the input: the call returned an error.
C8_Witness ==
    /\ Returned
    /\ Len(bills) = 2
    /\ HasPayer(bills[1]) /\ ~Rejected(bills[1])
    /\ HasPayer(bills[2]) /\ Rejected(bills[2])
    /\ Len(settlements) > 0
    /\ err = ErrSplitPrefix \o ErrNoParticipants
    /\ memberBalances = << >>

\* The matching loop run to its end.
RECURSIVE RunMatch(_, _, _)
RunMatch(ds, cs, m) ==
    IF Matching(ds, cs, m) THEN RunMatch(ds, cs, MatchOnce(ds, cs, m)) ELSE m

\* Whether a call on (bs, ss) may return (e, members, edges): under some choice
\* of the two map orders it does.
MayReturn(bs, ss, e, members, edges) ==
    LET agg == Aggregate(bs, ss)
    IN  IF agg.err # ""
        THEN e = agg.err /\ members = << >> /\ edges = << >>
        ELSE /\ e = ""
             /\ \E memberOrder \in MapOrders(DOMAIN agg.balances) :
                    members = MemberList(agg.balances, memberOrder)
             /\ \E partitionOrder \in MapOrders(DOMAIN agg.balances) :
                    LET ds == Debtors(agg.balances, partitionOrder)
                        cs == Creditors(agg.balances, partitionOrder)
                    IN  edges = RunMatch(ds, cs, StartMatch(ds, cs)).debtEdges

WithPayer(bs) == SelectSeq(bs, HasPayer)

\* C9: a bill without a payer contributes nothing: what the call returns is
\* what a call on the input without its payerless bills may return, the two
\* inputs aggregate to the same balances map (from which alone the members and
\* the edges are built), and with no settlements and no bill that has a payer
\* the call returns no member balances, no debt edges and no error.
C9_PayerlessBillsContributeNothing ==
    Returned =>
        /\ MayReturn(WithPayer(bills), settlements, err, memberBalances, debtEdges)
        /\ Aggregate(bills, settlements) = Aggregate(WithPayer(bills), settlements)
        /\ (settlements = << >> /\ WithPayer(bills) = << >>) =>
               /\ err = ""
               /\ memberBalances = << >>
               /\ debtEdges = << >>

\* A successful call with a bill that has a payer and a payerless bill in the
\* input, and members and edges returned.
C9_Witness ==
    /\ Succeeded
    /\ \E m, n \in DOMAIN bills : HasPayer(bills[m]) /\ ~HasPayer(bills[n])
    /\ Len(memberBalances) > 1
    /\ Len(debtEdges) > 0
    /\ Len(WithPayer(bills)) < Len(bills)

\* Only payerless bills, one of which CalculateSplit would reject: nothing is
\* returned and there is no error.
C9_WitnessAllPayerless ==
    /\ Succeeded
    /\ Len(bills) = 2
    /\ \A k \in DOMAIN bills : ~HasPayer(bills[k])
    /\ \E k \in DOMAIN bills : Rejected(bills[k])
    /\ settlements = << >>
    /\ memberBalances = << >>
    /\ debtEdges = << >>

RemoveAt(seq, k) == [n \in 1..(Len(seq) - 1) |-> IF n < k THEN seq[n] ELSE seq[n + 1]]

NetIn(bals, P) == IF P \in DOMAIN bals THEN bals[P].NetBalance ELSE Zero

SumOfNet(bals) == SumOver([p \in DOMAIN bals |-> bals[p].NetBalance], DOMAIN bals)

\* C10: against the same input without one of its settlements (amount A, from
\* X to Y), X's NetBalance is higher by exactly A, Y's is lower by exactly A,
\* everybody else's is the same, and the sum of all NetBalances is the same.
C10_SettlementShiftsBalances ==
    Succeeded =>
        \A k \in DOMAIN settlements :
            LET s == settlements[k]
                before == Aggregate(bills, RemoveAt(settlements, k)).balances
            IN  /\ DOMAIN balances = DOMAIN before \cup {s.FromUserID, s.ToUserID}
                /\ \A P \in DOMAIN balances :
                     balances[P].NetBalance =
                         IF P = s.FromUserID THEN Add(NetIn(before, P), s.Amount)
                         ELSE IF P = s.ToUserID THEN Sub(NetIn(before, P), s.Amount)
                         ELSE NetIn(before, P)
                /\ SumOfNet(balances) = SumOfNet(before)

\* A bill's debt partly settled: the debtor of the bill paid the creditor, and
\* a third member's balance is what it was.
C10_Witness ==
    /\ Succeeded
    /\ Len(settlements) = 1
    /\ \E k \in DOMAIN bills : HasPayer(bills[k])
    /\ LET s == settlements[1]
           before == Aggregate(bills, << >>).balances
       IN  /\ s.FromUserID \in DOMAIN before
           /\ s.ToUserID \in DOMAIN before
           /\ Lt(before[s.FromUserID].NetBalance, Zero)
           /\ balances[s.FromUserID].NetBalance =
                  Add(before[s.FromUserID].NetBalance, s.Amount)
           /\ balances[s.ToUserID].NetBalance =
                  Sub(before[s.ToUserID].NetBalance, s.Amount)
           /\ \E P \in DOMAIN before :
                  /\ P \notin {s.FromUserID, s.ToUserID}
                  /\ ~IsZero(before[P].NetBalance)
                  /\ balances[P].NetBalance = before[P].NetBalance

(***************************************************************************)
(* Repeated calls, minimality and membership (checked under Spec).         *)
(***************************************************************************)
\* The member lists a call whose aggregation ended in `bals` may return.
PossibleMemberLists(bals) ==
    {MemberList(bals, memberOrder) : memberOrder \in MapOrders(DOMAIN bals)}

\* The DebtEdge lists it may return.
PossibleEdgeLists(bals) ==
    {LET ds == Debtors(bals, partitionOrder)
         cs == Creditors(bals, partitionOrder)
     IN  RunMatch(ds, cs, StartMatch(ds, cs)).debtEdges :
        partitionOrder \in MapOrders(DOMAIN bals)}

\* C11: a second call with the same bills and the same settlements returns
\* the MemberBalance list and the DebtEdge list this call returned: same
\* elements, same order, same amounts.
C11_RepeatedCallsAgree ==
    Succeeded =>
        LET again == Aggregate(bills, settlements)
        IN  /\ again.err = ""
            /\ \A members \in PossibleMemberLists(again.balances) :
                   members = memberBalances
            /\ \A edges \in PossibleEdgeLists(again.balances) :
                   edges = debtEdges

\* A list of payments brings every net balance of `bals` to zero: what each
\* member receives less what they pay out is their NetBalance.
ZeroesBalances(edges, bals) ==
    \A P \in DOMAIN bals :
        bals[P].NetBalance =
            SumSeq([k \in DOMAIN edges |->
                      IF edges[k].To = P THEN edges[k].Amount
                      ELSE IF edges[k].From = P THEN Sub(Zero, edges[k].Amount)
                      ELSE Zero])

\* Payments among the members of `bals` of the size of one of their balances.
CandidateEdges(bals) ==
    {[From |-> f, To |-> t, Amount |-> amt] :
        f \in DOMAIN bals, t \in DOMAIN bals,
        amt \in {IF Lt(bals[P].NetBalance, Zero)
                 THEN Sub(Zero, bals[P].NetBalance)
                 ELSE bals[P].NetBalance : P \in DOMAIN bals}}

\* C12: the returned DebtEdge list is minimal: no list of payments among the
\* same members that brings every net balance to zero has fewer edges.
C12_DebtEdgesMinimal ==
    Succeeded =>
        \A n \in 0..(Len(debtEdges) - 1) :
            \A edges \in [1..n -> CandidateEdges(balances)] :
                ~ZeroesBalances(edges, balances)

(***************************************************************************)
(* The itemized and the equal split (checked under SpecSplit).             *)
(***************************************************************************)
\* How often item k names p.
TimesNamed(items, k, p) ==
    Cardinality({n \in DOMAIN items[k].Participants : items[k].Participants[n] = p})

\* The number of PersonItem entries the items before position k hand to p.
RECURSIVE EntriesBefore(_, _, _)
EntriesBefore(items, k, p) ==
    IF k <= 1 THEN 0
    ELSE EntriesBefore(items, k - 1, p) + TimesNamed(items, k - 1, p)

Amounts(personItems) == [n \in DOMAIN personItems |-> personItems[n].Amount]

\* The PersonItem entries of p in the result that come from item k.
Received(p, k) ==
    SubSeq(splitRet.splits[p].Items,
           EntriesBefore(splitArgs.items, k, p) + 1,
           EntriesBefore(splitArgs.items, k + 1, p))

SplitItemized == SplitAccepted /\ Len(splitArgs.items) > 0

\* What C13 says of item k of the call.
DividedAmongNamed(k) ==
    LET item == splitArgs.items[k]
        perPerson == Div(item.Amount, FromInt(Len(item.Participants)))
        named == Range(item.Participants)
        splits == splitRet.splits
    IN  /\ \A p \in named :
               /\ p \in DOMAIN splits
               /\ Received(p, k) = <<[Description |-> item.Description,
                                      Amount |-> perPerson]>>
        /\ \A p \in DOMAIN splits \ named : Received(p, k) = << >>
        /\ SumOver([p \in DOMAIN splits |-> SumSeq(Amounts(Received(p, k)))],
                   DOMAIN splits) = item.Amount
        /\ \A p \in DOMAIN splits :
               splits[p].Subtotal = SumSeq(Amounts(splits[p].Items))

\* C13 as stated: in the itemized case every item with a non-empty participant
\* list hands item.Amount / (number of named people) and one PersonItem with
\* its description to every person it names, these amounts add up to
\* item.Amount, nobody else receives anything from it, and what a person
\* receives is added to their Subtotal.
C13_ItemDividedAmongNamed_AnyNames ==
    SplitItemized =>
        \A k \in DOMAIN splitArgs.items :
            Len(splitArgs.items[k].Participants) > 0 => DividedAmongNamed(k)

\* C13, amended: the same of every item whose named people are pairwise
\* distinct participants of the bill.
C13_ItemDividedAmongNamed ==
    SplitItemized =>
        \A k \in DOMAIN splitArgs.items :
            LET people == splitArgs.items[k].Participants
            IN  (/\ Len(people) > 0
                 /\ Distinct(people)
                 /\ Range(people) \subseteq Range(splitArgs.participants))
                => DividedAmongNamed(k)

\* An item shared by two of the bill's people, after an item that names one
\* of them twice.
C13_Witness ==
    /\ SplitItemized
    /\ Len(splitArgs.items) = 2
    /\ splitArgs.participants = <<"a", "b">>
    /\ splitArgs.items[1].Participants = <<"a", "a">>
    /\ splitArgs.items[2].Participants = <<"a", "b">>
    /\ splitArgs.items[2].Amount = FromInt(20)
    /\ Received("a", 2) = <<[Description |-> splitArgs.items[2].Description,
                             Amount |-> FromInt(10)]>>
    /\ Received("b", 2) = Received("a", 2)
    /\ DividedAmongNamed(2)
    /\ Len(splitRet.splits["b"].Items) = 1

\* The number of entries of a PersonItem list that are described "Shared".
SharedEntries(personItems) ==
    Cardinality({n \in DOMAIN personItems :
                    personItems[n].Description = SharedDescription})

\* The entries of p in the result that come from the items of the call.
ItemEntries(p) ==
    SubSeq(splitRet.splits[p].Items, 1,
           EntriesBefore(splitArgs.items, Len(splitArgs.items) + 1, p))

HasShortfall == Lt(ItemizedTotal(splitArgs.items, 1), splitArgs.billSubtotal)

\* shortfall / len(participants)
ShortfallShare ==
    Div(Sub(splitArgs.billSubtotal, ItemizedTotal(splitArgs.items, 1)),
        FromInt(Len(splitArgs.participants)))

\* Every participant has one more entry than the items gave them, the last,
\* described "Shared", of the amount ShortfallShare, which their Subtotal
\* includes.
ShortfallShared ==
    \A p \in DOMAIN splitRet.splits :
        LET mine == splitRet.splits[p].Items
        IN  /\ Len(mine) = Len(ItemEntries(p)) + 1
            /\ mine[Len(mine)] = [Description |-> SharedDescription,
                                  Amount |-> ShortfallShare]
            /\ splitRet.splits[p].Subtotal =
                   Add(SumSeq(Amounts(ItemEntries(p))), ShortfallShare)

\* C14 as stated: in the itemized case, with a shortfall every participant's
\* Subtotal grows by shortfall / len(participants) and every participant has
\* exactly one PersonItem described "Shared", of that amount, after their item
\* entries; without a shortfall nobody has a "Shared" entry.
C14_ShortfallSharedByAll_OneSharedEntry ==
    SplitItemized =>
        IF HasShortfall
        THEN /\ ShortfallShared
             /\ \A p \in DOMAIN splitRet.splits :
                    SharedEntries(splitRet.splits[p].Items) = 1
        ELSE \A p \in DOMAIN splitRet.splits :
                 SharedEntries(splitRet.splits[p].Items) = 0

\* C14, amended: with a shortfall every participant's Subtotal grows by
\* shortfall / len(participants) and every participant gets exactly one
\* PersonItem for it, described "Shared", of that amount, after their item
\* entries; without a shortfall nobody gets an entry beyond those of the
\* items that name them.
C14_ShortfallSharedByAll ==
    SplitItemized =>
        IF HasShortfall
        THEN ShortfallShared
        ELSE \A p \in DOMAIN splitRet.splits :
                 /\ splitRet.splits[p].Items = ItemEntries(p)
                 /\ splitRet.splits[p].Subtotal =
                        SumSeq(Amounts(splitRet.splits[p].Items))

\* A shortfall of 10 on a bill of two, one of whom has no items.
C14_Witness ==
    /\ SplitItemized
    /\ HasShortfall
    /\ splitArgs.participants = <<"a", "b">>
    /\ ShortfallShare = FromInt(5)
    /\ Len(splitRet.splits["a"].Items) = 2
    /\ splitRet.splits["b"].Items =
           <<[Description |-> SharedDescription, Amount |-> FromInt(5)]>>
    /\ splitRet.splits["b"].Subtotal = FromInt(5)

\* Items that cover the subtotal: no entry for a shortfall.
C14_WitnessNoShortfall ==
    /\ SplitItemized
    /\ ~HasShortfall
    /\ splitArgs.billSubtotal = FromInt(30)
    /\ splitArgs.participants = <<"a", "b">>
    /\ splitRet.splits["b"].Items = << >>
    /\ Len(splitRet.splits["a"].Items) = 2

\* C15: a call with no items (billSubtotal # 0, n = len(participants) > 0)
\* gives every participant the same share: Subtotal = billSubtotal / n,
\* Tax = (billTotal - billSubtotal) / n, Total = billTotal / n, and an empty
\* PersonItem list.
C15_EqualSplit ==
    (SplitAccepted /\ Len(splitArgs.items) = 0) =>
        LET n == FromInt(Len(splitArgs.participants))
        IN  /\ DOMAIN splitRet.splits = Range(splitArgs.participants)
            /\ \A p \in Range(splitArgs.participants) :
                   splitRet.splits[p] =
                       [Subtotal |-> Div(splitArgs.billSubtotal, n),
                        Tax |-> Div(Sub(splitArgs.billTotal,
                                        splitArgs.billSubtotal), n),
                        Total |-> Div(splitArgs.billTotal, n),
                        Items |-> << >>]

\* 33 on a subtotal of 30 between two: 15, 1.5 and 16.5 each.
C15_Witness ==
    /\ SplitAccepted
    /\ Len(splitArgs.items) = 0
    /\ splitArgs.participants = <<"a", "b">>
    /\ splitRet.splits["a"] = [Subtotal |-> FromInt(15), Tax |-> Rat(3, 2),
                               Total |-> Rat(33, 2), Items |-> << >>]
    /\ splitRet.splits["b"] = splitRet.splits["a"]

\* The same person listed twice: one entry, of half the bill.
C15_WitnessListedTwice ==
    /\ SplitAccepted
    /\ Len(splitArgs.items) = 0
    /\ splitArgs.participants = <<"a", "a">>
    /\ splitRet.splits["a"].Total = Div(splitArgs.billTotal, FromInt(2))

(***************************************************************************)
(* The members returned (checked under Spec).                              *)
(***************************************************************************)
\* The people of a list of bills, as participant or payer (a bill without a
\* payer has no payer to count), and of a list of settlements.
PeopleOfBills(bs) ==
    UNION {Range(bs[k].Participants) \cup
           (IF HasPayer(bs[k]) THEN {bs[k].PayerID} ELSE {}) : k \in DOMAIN bs}

PeopleOfSettlements(ss) ==
    UNION {{ss[k].FromUserID, ss[k].ToUserID} : k \in DOMAIN ss}

\* The returned list has exactly one MemberBalance, under their own name, for
\* each person of `people` and for nobody else.
OneBalanceEach(people) ==
    /\ {memberBalances[k].MemberName : k \in DOMAIN memberBalances} = people
    /\ Len(memberBalances) = Cardinality(people)
    /\ \A k \in DOMAIN memberBalances :
           memberBalances[k] = balances[memberBalances[k].MemberName]

\* C16 as stated: a successful call returns exactly one MemberBalance for each
\* distinct person of any input bill (participant or payer) or settlement
\* (from or to) and for nobody else; with no bills and no settlements it
\* returns no balances and no edges.
C16_OneBalancePerPerson_AnyBill ==
    Succeeded =>
        /\ OneBalanceEach(PeopleOfBills(bills) \cup PeopleOfSettlements(settlements))
        /\ (bills = << >> /\ settlements = << >>) =>
               (memberBalances = << >> /\ debtEdges = << >>)

\* C16, amended: the same of the bills that have a payer.
C16_OneBalancePerPerson ==
    Succeeded =>
        /\ OneBalanceEach(PeopleOfBills(WithPayer(bills))
                          \cup PeopleOfSettlements(settlements))
        /\ (bills = << >> /\ settlements = << >>) =>
               (memberBalances = << >> /\ debtEdges = << >>)

\* Two bills of the same two people and a settlement that brings in a third:
\* three members, one balance each.
C16_Witness ==
    /\ Succeeded
    /\ Len(WithPayer(bills)) = 2
    /\ Len(settlements) = 1
    /\ PeopleOfBills(bills) = {"a", "b"}
    /\ settlements[1].FromUserID = "c"
    /\ Len(memberBalances) = 3

\* No bills and no settlements.
C16_WitnessEmpty ==
    /\ Succeeded
    /\ bills = << >>
    /\ settlements = << >>
    /\ memberBalances = << >>
    /\ debtEdges = << >>

(***************************************************************************)
(* Properties of the request handlers (checked under SpecService).         *)
(***************************************************************************)
\* Every stored bill that has a payer has that payer among its participants.
PayerAmongParticipants ==
    \A id \in DOMAIN storeBills :
        storeBills[id].PayerID # "" =>
            isParticipant(storeBills[id].PayerID, storeBills[id].Participants)

\* payer_id is non-empty and not in participant_ids.
BadPayer(req) ==
    req.PayerId # "" /\ ~isParticipant(req.PayerId, req.ParticipantIds)

BadPayerRequests == {req \in BillRequests : BadPayer(req)}

\* The step is the handling of a CreateBill (UpdateBill) request of that kind.
CreateBillWithBadPayer(userID, req, storeOK) ==
    resp'.rpc = "CreateBill" /\ HandleCreateBill(userID, req, storeOK)

UpdateBillWithBadPayer(userID, billID, req, storeOK) ==
    resp'.rpc = "UpdateBill" /\ HandleUpdateBill(userID, billID, req, storeOK)

\* Every CreateBill or UpdateBill step with such a request answers
\* InvalidArgument and writes nothing.
BadPayerIsInvalidArgument ==
    /\ \A userID \in Callers, req \in BadPayerRequests, storeOK \in BOOLEAN :
           CreateBillWithBadPayer(userID, req, storeOK) =>
               (resp'.code = CodeInvalidArgument /\ UNCHANGED <<storeBills, storeGroups>>)
    /\ \A userID \in Callers, billID \in BillIds, req \in BadPayerRequests,
          storeOK \in BOOLEAN :
           UpdateBillWithBadPayer(userID, billID, req, storeOK) =>
               (resp'.code = CodeInvalidArgument /\ UNCHANGED <<storeBills, storeGroups>>)

\* Every such step writes nothing and answers with an error: InvalidArgument
\* when the caller passes the checks that come before the payer's
\* (authenticated; a participant of the request for CreateBill, of the stored
\* bill for UpdateBill), else the error of the check that fails first.
BadPayerIsRejected ==
    /\ \A userID \in Callers, req \in BadPayerRequests, storeOK \in BOOLEAN :
           CreateBillWithBadPayer(userID, req, storeOK) =>
               /\ UNCHANGED <<storeBills, storeGroups>>
               /\ resp'.code =
                      IF userID = "" THEN CodeUnauthenticated
                      ELSE IF ~isParticipant(userID, req.ParticipantIds)
                      THEN CodePermissionDenied
                      ELSE CodeInvalidArgument
    /\ \A userID \in Callers, billID \in BillIds, req \in BadPayerRequests,
          storeOK \in BOOLEAN :
           UpdateBillWithBadPayer(userID, billID, req, storeOK) =>
               /\ UNCHANGED <<storeBills, storeGroups>>
               /\ resp'.code =
                      IF userID = "" THEN CodeUnauthenticated
                      ELSE IF billID \notin DOMAIN storeBills THEN CodeNotFound
                      ELSE IF ~isParticipant(userID, storeBills[billID].Participants)
                      THEN CodePermissionDenied
                      ELSE CodeInvalidArgument

\* C17 as stated: after any sequence of CreateBill and UpdateBill requests
\* every stored bill with a payer has the payer among its participants, and a
\* request whose payer_id is non-empty and not in participant_ids is rejected
\* with InvalidArgument before anything is written.
C17_PayerIsParticipant_AlwaysInvalidArgument ==
    []PayerAmongParticipants /\ [][BadPayerIsInvalidArgument]_vars

\* C17, amended: the same, the rejection being InvalidArgument when the caller
\* is authenticated and a participant (of the request for CreateBill, of the
\* stored bill, which exists, for UpdateBill), and Unauthenticated, NotFound
\* or PermissionDenied otherwise.
C17_PayerIsParticipant ==
    []PayerAmongParticipants /\ [][BadPayerIsRejected]_vars

\* A bill with a payer is stored, and an update of it naming a payer who is
\* not a participant has just been answered InvalidArgument.
C17_Witness ==
    /\ resp.rpc = "UpdateBill"
    /\ resp.code = CodeInvalidArgument
    /\ resp.err = "payer_id 'c' must be one of the participants"
    /\ \E id \in DOMAIN storeBills : storeBills[id].PayerID = "a"


(***************************************************************************)
(* C18: what RecordSettlement stores and what it refuses.                  *)
(***************************************************************************)
\* Every stored settlement has a positive amount and two different people.
SettlementsWellFormed ==
    \A id \in DOMAIN storeSettlements :
        /\ Gt(storeSettlements[id].Amount, Zero)
        /\ storeSettlements[id].FromUserID # storeSettlements[id].ToUserID

\* A settlement stored by this step is between two members, at this moment,
\* of its group.
RecordedAmongMembers ==
    \A id \in DOMAIN storeSettlements' \ DOMAIN storeSettlements :
        LET settlement == storeSettlements'[id]
        IN  /\ settlement.GroupID \in DOMAIN storeGroups
            /\ settlement.FromUserID \in storeGroups[settlement.GroupID]
            /\ settlement.ToUserID \in storeGroups[settlement.GroupID]

\* The request breaks one of the rules: zero or negative amount, the same
\* from and to, a missing group, or a from or to who is not a member.
BreaksSettlementRules(req) ==
    \/ ~Gt(req.Amount, Zero)
    \/ req.FromUserId = req.ToUserId
    \/ req.GroupId \notin DOMAIN storeGroups
    \/ req.FromUserId \notin storeGroups[req.GroupId]
    \/ req.ToUserId \notin storeGroups[req.GroupId]

\* A RecordSettlement step with a request that breaks a rule answers with an
\* error and stores nothing.
RuleBreakersRefused ==
    \A userID \in Callers, req \in SettlementRequests, storeOK \in BOOLEAN :
        (/\ resp'.rpc = "RecordSettlement"
         /\ BreaksSettlementRules(req)
         /\ HandleRecordSettlement(userID, req, storeOK))
        => (resp'.code # CodeOK /\ UNCHANGED storeSettlements)

\* C18: after any sequence of requests every stored settlement has amount > 0
\* and from_user_id # to_user_id, both were members of its group when it was
\* recorded, and a RecordSettlement request with a zero or negative amount,
\* the same from and to, a non-member from or to, or a missing group returns
\* an error and stores nothing.
C18_SettlementsValid ==
    /\ []SettlementsWellFormed
    /\ [][RecordedAmongMembers /\ RuleBreakersRefused]_vars

\* A settlement is in the store and a later request from a to a was refused.
C18_Witness ==
    /\ storeSettlements # << >>
    /\ resp = Response("RecordSettlement", CodeInvalidArgument,
                       "from_user_id and to_user_id must be different")

\* A settlement is in the store and a later request of a non-member was
\* refused.
C18_WitnessNonMember ==
    /\ storeSettlements # << >>
    /\ resp = Response("RecordSettlement", CodeInvalidArgument,
                       "from_user is not a member of this group")


(***************************************************************************)
(* C19: the code a handler gives to an error of the calculator.            *)
(***************************************************************************)
\* The two input errors of CalculateSplit, bare or as CalculateGroupBalances
\* wraps them.
EngineInputErrors ==
    {ErrZeroSubtotal, ErrNoParticipants,
     ErrSplitPrefix \o ErrZeroSubtotal, ErrSplitPrefix \o ErrNoParticipants}

\* C19: every handler that runs the calculator (CalculateSplit, CreateBill,
\* UpdateBill, GetBill, GetGroupBalances) answers a "subtotal cannot be zero"
\* or "must have at least one participant" error of the calculator with
\* InvalidArgument.
C19_EngineInputErrorIsInvalidArgument ==
    resp.err \in EngineInputErrors => resp.code = CodeInvalidArgument


(***************************************************************************)
(* C20: concurrent invocations (checked under SpecConcurrent).             *)
(***************************************************************************)
\* What a call of CalculateSplit on args returns when run alone.
AloneSplit(args) ==
    LET r == CalculateSplit(args.items, args.billTotal, args.billSubtotal,
                            args.participants)
    IN  [NoResult EXCEPT !.err = r.err, !.splits = r.splits]

\* What a call of CalculateGroupBalances on args may return when run alone.
AloneBalances(args) ==
    LET agg == Aggregate(args.bills, args.settlements)
    IN  IF agg.err # "" THEN {[NoResult EXCEPT !.err = agg.err]}
        ELSE {[NoResult EXCEPT
                  !.memberBalances = MemberList(agg.balances, memberOrder),
                  !.debtEdges =
                      RunMatch(Debtors(agg.balances, partitionOrder),
                               Creditors(agg.balances, partitionOrder),
                               StartMatch(Debtors(agg.balances, partitionOrder),
                                          Creditors(agg.balances, partitionOrder))
                              ).debtEdges] :
                  memberOrder \in MapOrders(DOMAIN agg.balances),
                  partitionOrder \in MapOrders(DOMAIN agg.balances)}

AloneResults(call) ==
    IF call.fn = "CalculateSplit" THEN {AloneSplit(call.given)}
    ELSE AloneBalances(call.given)

Returned20 == {g \in Goroutines : calls[g].pc = "done"}

\* Whatever the interleaving, a returned invocation handed back a result the
\* same call can hand back when run alone, and left its arguments as given.
InvocationsIsolated ==
    \A g \in Returned20 :
        /\ calls[g].ret \in AloneResults(calls[g])
        /\ calls[g].args = calls[g].given

RECURSIVE IterationsFrom(_, _, _, _)
IterationsFrom(ds, cs, m, fuel) ==
    IF fuel = 0 \/ ~Matching(ds, cs, m) THEN 0
    ELSE 1 + IterationsFrom(ds, cs, MatchOnce(ds, cs, m), fuel - 1)

\* The call is in the loop or has returned from it.
ReachedLoop == pc \in {"match", "done"} /\ err = ""

\* The iterations of the loop of this call, counted one past the bound.
Iterations ==
    IterationsFrom(debtors, creditors, StartMatch(debtors, creditors),
                   Len(debtors) + Len(creditors) + 1)

\* An iteration moves no cursor back and moves at least one on.
CursorAdvances ==
    (pc = "match" /\ pc' = "match") =>
        (i' >= i /\ j' >= j /\ i' + j' > i + j)

\* Once in the loop the call returns.
LoopEnds == (pc = "match") ~> (pc = "done")

IterationsWithin(bound) ==
    ReachedLoop => (Iterations <= bound /\ Len(debtEdges) <= bound)

\* C21 as stated: at most (debtors + creditors - 1) iterations and edges,
\* fewer edges than participants.
C21_LoopTerminates_AnyBalances ==
    /\ IterationsWithin(Len(debtors) + Len(creditors) - 1)
    /\ ReachedLoop => Len(debtEdges) < Len(memberBalances)

\* C21: the loop ends; every iteration advances a cursor; with a debtor and a
\* creditor it performs at most (debtors + creditors - 1) iterations and
\* without one of them none; it emits at most that many edges, fewer than
\* the number of participants when there is a participant.
C21_LoopTerminates ==
    /\ [](IterationsWithin(IF Len(debtors) > 0 /\ Len(creditors) > 0
                           THEN Len(debtors) + Len(creditors) - 1 ELSE 0))
    /\ [](ReachedLoop /\ Len(memberBalances) > 0
              => Len(debtEdges) < Len(memberBalances))
    /\ [][CursorAdvances]_vars
    /\ LoopEnds

\* Two debtors and one creditor: two iterations, two edges, three people.
C21_Witness ==
    /\ Succeeded
    /\ Len(debtors) = 2 /\ Len(creditors) = 1
    /\ Iterations = 2 /\ Len(debtEdges) = 2 /\ Len(memberBalances) = 3


(***************************************************************************)
(* C22: where the cursors stand when the loop ends (under SpecCents).     *)
(***************************************************************************)
\* The net balances the simplifier starts from sum to zero.
SumsToZero == IsZero(SumSeq(NetBalances(memberBalances)))

BothExhausted == i = Len(debtors) /\ j = Len(creditors)

\* No cursor has moved past a debtor or creditor with something left.
NothingLeftBehind ==
    /\ \A k \in 1..i : IsZero(debtorBalance[debtors[k].MemberName])
    /\ \A k \in 1..j : IsZero(creditorBalance[creditors[k].MemberName])

NetOf(name) == balances[name].NetBalance

\* Every edge so far runs from a member with a negative net balance to one
\* with a positive net balance and carries more than 0.01.
EdgesWellFormed ==
    ReachedLoop =>
        \A k \in DOMAIN debtEdges :
            /\ debtEdges[k].From \in DOMAIN balances
            /\ debtEdges[k].To \in DOMAIN balances
            /\ Lt(NetOf(debtEdges[k].From), Zero)
            /\ Gt(NetOf(debtEdges[k].To), Zero)
            /\ debtEdges[k].From # debtEdges[k].To
            /\ Gt(debtEdges[k].Amount, Epsilon)

\* The amount the iteration about to run matches.
MatchedAmount ==
    Min(debtorBalance[debtors[i + 1].MemberName],
        creditorBalance[creditors[j + 1].MemberName])

\* An iteration that matches 0.01 or less adds no edge and still takes the
\* amount off the debtor's and the creditor's remainders.
SmallMatchSubtracted ==
    (pc = "match" /\ pc' = "match" /\ InLoop /\ ~Gt(MatchedAmount, Epsilon)) =>
        LET debtor == debtors[i + 1].MemberName
            creditor == creditors[j + 1].MemberName
        IN  /\ debtEdges' = debtEdges
            /\ debtorBalance'[debtor] = Sub(debtorBalance[debtor], MatchedAmount)
            /\ creditorBalance'[creditor] =
                   Sub(creditorBalance[creditor], MatchedAmount)

\* C23: every DebtEdge has From a participant with negative NetBalance, To a
\* participant with positive NetBalance (so From # To) and Amount > 0.01; a
\* matched amount of 0.01 or less produces no edge but is still subtracted
\* from the debtor's and the creditor's remaining magnitude.
C23_EdgesAboveEpsilon == []EdgesWellFormed /\ [][SmallMatchSubtracted]_vars

\* One edge of 30 and a matched cent that left no edge: two creditors paid
\* off, one edge.
C23_Witness ==
    /\ Succeeded
    /\ Len(debtEdges) = 1 /\ Len(creditors) = 2 /\ j = 2
    /\ \E k \in 1..2 : creditors[k].NetBalance = Epsilon
    /\ \A k \in 1..2 : IsZero(creditorBalance[creditors[k].MemberName])


(***************************************************************************)
(* C24: nobody is matched beyond their balance (checked under Spec).       *)
(***************************************************************************)
\* No remaining magnitude is negative.
RemaindersNonNegative ==
    /\ \A p \in DOMAIN debtorBalance : ~Lt(debtorBalance[p], Zero)
    /\ \A p \in DOMAIN creditorBalance : ~Lt(creditorBalance[p], Zero)

\* The total of the edges leaving P, and of those entering P.
EdgesFrom(P) ==
    SumSeq([k \in DOMAIN debtEdges |->
              IF debtEdges[k].From = P THEN debtEdges[k].Amount ELSE Zero])

EdgesTo(P) ==
    SumSeq([k \in DOMAIN debtEdges |->
              IF debtEdges[k].To = P THEN debtEdges[k].Amount ELSE Zero])

\* C24: at every step of the loop every remaining magnitude is >= 0, and the
\* edges leaving a debtor total at most that debtor's |NetBalance|, the edges
\* entering a creditor at most that creditor's NetBalance.
C24_NobodyOverpays ==
    ReachedLoop =>
        /\ RemaindersNonNegative
        /\ \A k \in DOMAIN debtors :
               ~Gt(EdgesFrom(debtors[k].MemberName),
                   Sub(Zero, debtors[k].NetBalance))
        /\ \A k \in DOMAIN creditors :
               ~Gt(EdgesTo(creditors[k].MemberName), creditors[k].NetBalance)

\* A debtor who pays two creditors, in all exactly what the debtor owes.
C24_Witness ==
    /\ Succeeded
    /\ \E k \in DOMAIN debtors :
           /\ EdgesFrom(debtors[k].MemberName) = Sub(Zero, debtors[k].NetBalance)
           /\ Cardinality({n \in DOMAIN debtEdges :
                              debtEdges[n].From = debtors[k].MemberName}) = 2


(***************************************************************************)
(* C25: items nobody is named on (checked under SpecSplit).                *)
(***************************************************************************)
SkippedItems ==
    {k \in DOMAIN splitArgs.items : Len(splitArgs.items[k].Participants) = 0}

\* The number of p's entries in the result with description d.
EntriesDescribed(p, d) ==
    Cardinality({n \in DOMAIN splitRet.splits[p].Items :
                    splitRet.splits[p].Items[n].Description = d})

\* How often the items described d name p.
TimesNamedBy(p, d) ==
    Cardinality({kn \in UNION {{<<k, n>> : n \in DOMAIN splitArgs.items[k].Participants} :
                                  k \in DOMAIN splitArgs.items} :
                    /\ splitArgs.items[kn[1]].Description = d
                    /\ splitArgs.items[kn[1]].Participants[kn[2]] = p})

\* The sum of the amounts of the items that name somebody.
NamedTotal ==
    SumSeq([k \in DOMAIN splitArgs.items |->
               IF k \in SkippedItems THEN Zero ELSE splitArgs.items[k].Amount])

\* The entries of p are those of the items that name p, then, when the items
\* that name somebody fall short of billSubtotal, one "Shared" entry of the
\* shortfall divided by len(participants).
RemainderExcludesSkipped ==
    LET short == Lt(NamedTotal, splitArgs.billSubtotal)
        share == Div(Sub(splitArgs.billSubtotal, NamedTotal),
                     FromInt(Len(splitArgs.participants)))
    IN  \A p \in DOMAIN splitRet.splits :
            LET mine == splitRet.splits[p].Items
            IN  IF short
                THEN /\ mine = Append(ItemEntries(p),
                                      [Description |-> SharedDescription,
                                       Amount |-> share])
                     /\ splitRet.splits[p].Subtotal =
                            Add(SumSeq(Amounts(ItemEntries(p))), share)
                ELSE /\ mine = ItemEntries(p)
                     /\ splitRet.splits[p].Subtotal = SumSeq(Amounts(mine))

\* C25: in the itemized case an item with an empty participant list is
\* skipped: nobody gets a PersonItem from it (the entries with its
\* description are those of the items that name the person, and the "Shared"
\* remainder) and its amount is not in the itemized sum, so it reaches the
\* participants only through the equal "Shared" remainder of billSubtotal.
C25_UnassignedItemSkipped ==
    (SplitItemized /\ SkippedItems # {}) =>
        /\ \A k \in SkippedItems, p \in DOMAIN splitRet.splits :
               LET d == splitArgs.items[k].Description
               IN  EntriesDescribed(p, d) =
                       TimesNamedBy(p, d) +
                       (IF d = SharedDescription
                           /\ Lt(NamedTotal, splitArgs.billSubtotal)
                        THEN 1 ELSE 0)
        /\ RemainderExcludesSkipped

\* A pizza of 20 nobody is named on and an item of 10 for a, on a subtotal
\* of 30 for a and b: nobody has a pizza entry, the 20 are shared, 10 each.
C25_Witness ==
    /\ SplitItemized
    /\ splitArgs.participants = <<"a", "b">>
    /\ splitArgs.billSubtotal = FromInt(30)
    /\ Len(splitArgs.items) = 2
    /\ splitArgs.items[1] = [Description |-> "Pizza", Amount |-> FromInt(20),
                             Participants |-> << >>]
    /\ splitArgs.items[2].Participants = <<"a">>
    /\ splitArgs.items[2].Amount = FromInt(10)
    /\ splitRet.splits["b"].Items =
           <<[Description |-> SharedDescription, Amount |-> FromInt(10)]>>
    /\ splitRet.splits["a"].Subtotal = FromInt(20)
    /\ EntriesDescribed("a", "Pizza") = 0


(***************************************************************************)
(* C26: a failed CreateBill or UpdateBill and the store (SpecService).     *)
(***************************************************************************)
\* The step answers a CreateBill or UpdateBill request with an error.
BillWriteFailed ==
    resp'.rpc \in {"CreateBill", "UpdateBill"} /\ resp'.code # CodeOK

\* C26: whenever CreateBill or UpdateBill returns an error to the caller, the
\* stored bills and their contents are the same as before the call.
C26_FailedWriteStoresNothing ==
    [][BillWriteFailed => storeBills' = storeBills]_vars


(***************************************************************************)
(* C27: GetGroupBalances among overlapping requests (SpecRace).            *)
(***************************************************************************)
\* C27: the balances GetGroupBalances returns are those of the group's bills
\* and settlements as they were together in the store at some moment during
\* the call, and the call does not fail because a listed bill is gone at its
\* GetBill.
C27_BalancesFromOneState ==
    gb.pc = "done" =>
        /\ gb.code = CodeOK =>
               \E snap \in gb.seen :
                   LET agg == Aggregate(snap[1], snap[2])
                   IN  agg.err = "" /\ agg.balances = gb.balances
        /\ ~(gb.code = CodeInternal /\ resp.err = "bill not found")


(***************************************************************************)
(* C28: a person's Subtotal and the order of their entries (SpecSplit).    *)
(***************************************************************************)
\* The entries item hands to p: one for every time it names p.
EntriesOfItem(item, p) ==
    LET mine == SelectSeq(item.Participants, LAMBDA person : person = p)
    IN  [n \in DOMAIN mine |->
            [Description |-> item.Description,
             Amount |-> Div(item.Amount, FromInt(Len(item.Participants)))]]

\* The entries items k, k + 1, ... hand to p, in the order of the items.
RECURSIVE EntriesInItemOrder(_, _, _)
EntriesInItemOrder(items, k, p) ==
    IF k > Len(items) THEN << >>
    ELSE EntriesOfItem(items[k], p) \o EntriesInItemOrder(items, k + 1, p)

\* The entry of the shared remainder: one when the items fall short.
RemainderEntry ==
    IF Lt(NamedTotal, splitArgs.billSubtotal)
    THEN <<[Description |-> SharedDescription,
            Amount |-> Div(Sub(splitArgs.billSubtotal, NamedTotal),
                           FromInt(Len(splitArgs.participants)))]>>
    ELSE << >>

\* C28: in every successful itemized result each participant's Subtotal is
\* the sum of the Amounts of their PersonItem entries, and the entries are in
\* the order of the bill's items with the entry of the "Shared" remainder, if
\* any, last.
C28_SubtotalIsSumOfEntries ==
    SplitItemized =>
        \A p \in DOMAIN splitRet.splits :
            /\ splitRet.splits[p].Subtotal =
                   SumSeq(Amounts(splitRet.splits[p].Items))
            /\ splitRet.splits[p].Items =
                   EntriesInItemOrder(splitArgs.items, 1, p) \o RemainderEntry

\* A pizza of 20 naming a twice and an item nobody is assigned to, on a subtotal
\* of 30 between a and b: a has the pizza's two entries and then the
\* remainder's, and a Subtotal of 25.
C28_Witness ==
    /\ SplitItemized
    /\ splitArgs.participants = <<"a", "b">>
    /\ splitArgs.billSubtotal = FromInt(30)
    /\ Len(splitArgs.items) = 2
    /\ splitArgs.items[1] = [Description |-> "Pizza", Amount |-> FromInt(20),
                             Participants |-> <<"a", "a">>]
    /\ splitArgs.items[2].Participants = << >>
    /\ splitRet.splits["a"].Items =
           <<[Description |-> "Pizza", Amount |-> FromInt(10)],
             [Description |-> "Pizza", Amount |-> FromInt(10)],
             [Description |-> SharedDescription, Amount |-> FromInt(5)]>>
    /\ splitRet.splits["a"].Subtotal = FromInt(25)


(***************************************************************************)
(* C29: who has an entry in the returned map (SpecSplit).                  *)
(***************************************************************************)
\* One entry for each distinct identifier in participants, none for others.
EntriesAreParticipants ==
    DOMAIN splitRet.splits = Range(splitArgs.participants)

\* The people some item names who are not in participants.
Strangers ==
    UNION {Range(splitArgs.items[k].Participants) : k \in DOMAIN splitArgs.items}
        \ Range(splitArgs.participants)

\* As many entries as the divisor len(participants).
EntriesMatchDivisor ==
    Cardinality(DOMAIN splitRet.splits) = Len(splitArgs.participants)

\* C29 as stated: the map of a successful call has exactly one entry for each
\* distinct identifier in participants and none for anyone else, and the
\* number of entries equals len(participants).
C29_EntriesAreParticipants_AnyList ==
    SplitAccepted => EntriesAreParticipants /\ EntriesMatchDivisor

\* C29: the map of a successful call has exactly one entry for each distinct
\* identifier in participants and none for anyone else, people named on an
\* item but not in participants included; when no identifier is listed twice
\* the number of entries equals the divisor len(participants).
C29_EntriesAreParticipants ==
    SplitAccepted =>
        /\ EntriesAreParticipants
        /\ Strangers \cap DOMAIN splitRet.splits = {}
        /\ Distinct(splitArgs.participants) => EntriesMatchDivisor

\* A call of two distinct participants with an item naming c, who is not one
\* of them: two entries, none for c.
C29_Witness ==
    /\ SplitItemized
    /\ splitArgs.participants = <<"a", "b">>
    /\ "c" \in Strangers
    /\ DOMAIN splitRet.splits = {"a", "b"}


(***************************************************************************)
(* C30: recording a settlement and deleting it again (SpecRace).           *)
(***************************************************************************)
\* The settlement recorded last has been deleted, and nothing else written.
RecordedThenDeleted == undo.deleted

\* C30: recording a settlement in a group and then deleting that settlement
\* restores what GetGroupBalances computes (every member's TotalPaid,
\* TotalOwed and NetBalance, and the set of members) to what it was before
\* the settlement was recorded, whatever bills and other settlements the
\* group has.
C30_RecordThenDeleteRestores ==
    RecordedThenDeleted => GroupOutput = undo.before

\* A settlement recorded and deleted again in a group that has a bill, its
\* balances computed without error.
C30_Witness ==
    /\ RecordedThenDeleted
    /\ resp.rpc = "DeleteSettlement"
    /\ resp.code = CodeOK
    /\ Len(BillsOfGroup("g")) > 0
    /\ Len(SettlementsOfGroup("g")) = 0
    /\ GroupOutput.err = ""
    /\ DOMAIN GroupOutput.balances = {"a", "b"}

====
